---------------------------- MODULE PanelProofs ----------------------------
(***************************************************************************)
(* Proofs about Panel: what is on the wires of the panel and the order of  *)
(* the areas, for any number of areas and any length of the queue of       *)
(* pixels, the newest gesture, for any number of gestures and readings     *)
(* that fail, and what the user interface makes of the gestures.           *)
(***************************************************************************)
EXTENDS Panel, WellFoundedInduction, TLAPS

\* From the first command for an area until LVGL is told that it has been sent.
InFlight == Commanding \/ pixel_mq # <<>> \/ pump # "wait"

\* The buffer last flushed: LVGL goes on with the other one in Swap.
Flushed == IF Commanding \/ lv = "sent" THEN cur ELSE 3 - cur

\* One area is in flight at a time, in one place, and LVGL knows of it.
OneInFlight == /\ InFlight => flushing /\ spi
               /\ Commanding => pixel_mq = <<>> /\ pump = "wait"
               /\ pump # "wait" => pixel_mq = <<>>

\* It is the one last flushed, and its buffer still holds it.
AreaKept == /\ pixel_mq # <<>> => pixel_mq = <<Flushed>>
            /\ pump # "wait" => pixels = Flushed
            /\ InFlight => drawn > 0
            /\ lv = "draw" => drawn < MaxAreas
            /\ drawn > 0 => buf[Flushed] = drawn

\* The thread of the pixels alone sets the width, the LVGL thread the pin.
WireFollows == /\ width = IF pump \in {"send", "sent"} THEN 16 ELSE 8
               /\ dc = IF lv \in {"column", "row", "pixels"} THEN "command" ELSE "data"

AllSent == spi => Len(shown) = IF InFlight /\ pump \notin {"sent", "ready"} THEN drawn - 1 ELSE drawn

DisplayInv == DisplayTypeOK /\ OneInFlight /\ AreaKept /\ WireFollows /\ AllSent /\ AreasInOrder

LEMMA DisplayBegins == DisplayInit => DisplayInv
  <1> SUFFICES ASSUME DisplayInit PROVE DisplayInv
    OBVIOUS
  <1> USE DisplayAssumption DEF DisplayInit, Buffers
  <1>1. DisplayTypeOK
    <2>1. buf \in [Buffers -> Nat] /\ cur \in Buffers /\ drawn \in 0..MaxAreas
      OBVIOUS
    <2>2. pixel_mq \in Seq(Buffers) /\ Len(pixel_mq) <= QueueSize /\ shown \in Seq(Nat)
      OBVIOUS
    <2>3. pixels \in Buffers \cup {0} /\ width \in {8, 16} /\ dc \in {"data", "command"}
      OBVIOUS
    <2> QED BY <2>1, <2>2, <2>3 DEF DisplayTypeOK
  <1>2. OneInFlight /\ AreaKept /\ WireFollows
    BY DEF OneInFlight, AreaKept, WireFollows, InFlight, Commanding, Flushed
  <1>3. AllSent /\ AreasInOrder
    BY DEF AllSent, AreasInOrder, InFlight, Commanding
  <1> QED BY <1>1, <1>2, <1>3 DEF DisplayInv

\* The LVGL thread keeps the invariant.
LEMMA DrawKeeps == DisplayInv /\ DrawNext => DisplayInv'
  <1> SUFFICES ASSUME DisplayInv, DrawNext PROVE DisplayInv'
    OBVIOUS
  <1> USE DisplayAssumption
      DEF DisplayInv, DisplayTypeOK, OneInFlight, AreaKept, WireFollows, AllSent, AreasInOrder,
          InFlight, Commanding, Flushed, Buffers, pumpVars, wires
  <1>1. CASE Draw
    BY <1>1 DEF Draw
  <1>2. CASE TaskDone
    BY <1>2 DEF TaskDone
  <1>3. CASE Flush
    BY <1>3 DEF Flush
  <1>4. CASE Params("column", "columns") \/ Params("row", "rows")
    BY <1>4 DEF Params
  <1>5. CASE Command("columns", "row") \/ Command("rows", "pixels")
    BY <1>5 DEF Command
  <1>6. CASE QueuePixels
    <2>1. /\ lv = "pixels" /\ lv' = "sent" /\ dc' = "data"
          /\ pixel_mq = <<>> /\ pump = "wait" /\ flushing /\ spi /\ drawn > 0 /\ buf[cur] = drawn
          /\ UNCHANGED <<spi, buf, cur, drawn, flushing, pumpVars, width>>
      BY <1>6 DEF QueuePixels
    <2>2. pixel_mq' = <<cur>>
      BY <1>6, <2>1 DEF QueuePixels
    <2>3. DisplayTypeOK'
      BY <2>1, <2>2
    <2>4. (OneInFlight /\ AreaKept)'
      BY <2>1, <2>2
    <2>5. (WireFollows /\ AllSent /\ AreasInOrder)'
      BY <2>1, <2>2
    <2> QED BY <2>3, <2>4, <2>5
  <1>7. CASE Swap
    BY <1>7 DEF Swap
  <1> QED BY <1>1, <1>2, <1>3, <1>4, <1>5, <1>6, <1>7 DEF DrawNext, FlushSteps

\* The thread of the pixels keeps it.
LEMMA PumpKeeps == DisplayInv /\ PumpNext => DisplayInv'
  <1> SUFFICES ASSUME DisplayInv, PumpNext PROVE DisplayInv'
    OBVIOUS
  <1> USE DisplayAssumption
      DEF DisplayInv, DisplayTypeOK, OneInFlight, AreaKept, WireFollows, AllSent, AreasInOrder,
          InFlight, Commanding, Flushed, Buffers, lvVars, wires
  <1>1. CASE Receive
    <2>1. /\ pump = "wait" /\ pump' = "received" /\ pixel_mq = <<Flushed>>
          /\ flushing /\ spi /\ drawn > 0 /\ ~Commanding
          /\ UNCHANGED <<spi, lvVars, shown, wires>>
      BY <1>1 DEF Receive
    <2>2. pixels' = Flushed /\ pixel_mq' = <<>> /\ Flushed \in Buffers
      BY <1>1, <2>1 DEF Receive
    <2> QED BY <2>1, <2>2
  <1>2. CASE Widen
    BY <1>2 DEF Widen
  <1>3. CASE Sent
    BY <1>3 DEF Sent
  <1>4. CASE Narrow
    BY <1>4 DEF Narrow
  <1>5. CASE FlushReady
    BY <1>5 DEF FlushReady
  <1> QED BY <1>1, <1>2, <1>3, <1>4, <1>5 DEF PumpNext

\* Everything else leaves the display alone, but for the end of a round of events.
LEMMA OthersKeep ==
  ASSUME DisplayInv, Handled \/ UNCHANGED displayVars
  PROVE  DisplayInv'
  <1> USE DEF DisplayInv, DisplayTypeOK, OneInFlight, AreaKept, WireFollows, AllSent, AreasInOrder,
              InFlight, Commanding, Flushed, Buffers
  <1>1. CASE Handled
    BY <1>1 DEF Handled, pumpVars, wires
  <1>2. CASE UNCHANGED displayVars
    BY <1>2 DEF displayVars, lvVars, pumpVars, wires
  <1> QED BY <1>1, <1>2

LEMMA DisplayInvKept == DisplayInv /\ [Next]_vars => DisplayInv'
  <1> SUFFICES ASSUME DisplayInv, [Next]_vars PROVE DisplayInv'
    OBVIOUS
  <1>1. CASE DrawNext
    BY <1>1, DrawKeeps
  <1>2. CASE PumpNext
    BY <1>2, PumpKeeps
  <1>3. CASE Handled
    BY <1>3, OthersKeep
  <1>4. CASE Handle \/ Cst816t \/ Finger \/ UNCHANGED vars
    <2>1. UNCHANGED displayVars
      BY <1>4 DEF Handle, Cst816t, SetUp, TakeIrq, Read, ReadFails, Send, Finger, Gesture, vars
    <2> QED BY <2>1, OthersKeep
  <1> QED BY <1>1, <1>2, <1>3, <1>4 DEF Next, Lvgl, PixelPump

LEMMA DisplayInvAlways == Spec => []DisplayInv
  <1>1. Init => DisplayInv
    BY DisplayBegins DEF Init
  <1> QED BY <1>1, DisplayInvKept, PTL DEF Spec

\* Commands and pixels go out at the width and with the level of DC the panel takes
\* them at, whatever the order in which the two threads of lvgl_display.c run.
THEOREM WireNeverWrong == Spec => []WireIsRight
  <1>1. DisplayInv => WireIsRight
    BY DEF DisplayInv, OneInFlight, WireFollows, WireIsRight, Commanding
  <1> QED BY <1>1, DisplayInvAlways, PTL

\* The panel gets every area as it was drawn and in the order drawn, for a queue of
\* any length: no buffer is drawn into again before its pixels are out.
THEOREM AreasArriveInOrder == Spec => []AreasInOrder
  <1>1. DisplayInv => AreasInOrder
    BY DEF DisplayInv
  <1> QED BY <1>1, DisplayInvAlways, PTL
-----------------------------------------------------------------------------
\* The gesture an interrupt told of is the newest one, until the controller is set up
\* there is none, and one that nobody has read yet has an interrupt to be answered.
Told == /\ asked \in {0, chip.id}
        /\ sem > 0 \/ tp = "read" => asked = chip.id
        /\ tp \in {"setup", "stopped"} => asked = 0 /\ sem = 0
        /\ tp = "send" /\ sem = 0 => got.id = asked

\* Without one, the newest gesture told of is the last in the queue, or was the last
\* there, or is the one that was missed.
Newest == IF touchpad_mq = <<>> THEN handled ELSE touchpad_mq[Len(touchpad_mq)].id
Answered == tp \in {"setup", "stopped", "wait"} /\ sem = 0 => asked \in {Newest, missed}

\* Readings return gestures in the order made, and the queue keeps it.
InOrder == /\ handled <= got.id /\ got.id <= chip.id
           /\ \A k \in DOMAIN touchpad_mq : handled <= touchpad_mq[k].id /\ touchpad_mq[k].id <= got.id
           /\ \A j, k \in DOMAIN touchpad_mq : j <= k => touchpad_mq[j].id <= touchpad_mq[k].id

Gestures == [id : Nat, kind : Kinds \cup {"none"}, place : Places \cup {<<>>}]
TouchTypes == /\ tp \in {"setup", "wait", "read", "send", "stopped"}
              /\ chip \in Gestures /\ got \in Gestures /\ touchpad_mq \in Seq(Gestures)
              /\ sem \in Nat /\ asked \in Nat /\ handled \in Nat /\ missed \in Nat

TouchInv == TouchTypes /\ Told /\ Answered /\ InOrder

LEMMA TouchBegins == Init => TouchInv
  <1> SUFFICES ASSUME Init PROVE TouchInv
    OBVIOUS
  <1>1. TouchTypes
    BY DEF Init, TouchTypes, Gestures
  <1>2. Told /\ Answered /\ InOrder
    BY DEF Init, Told, Answered, Newest, InOrder
  <1> QED BY <1>1, <1>2 DEF TouchInv

LEMMA QueuedIds ==
  ASSUME TouchTypes
  PROVE  \A k \in DOMAIN touchpad_mq : touchpad_mq[k].id \in Nat
  <1> SUFFICES ASSUME NEW k \in DOMAIN touchpad_mq PROVE touchpad_mq[k].id \in Nat
    OBVIOUS
  <1>1. touchpad_mq[k] \in Gestures
    BY DEF TouchTypes
  <1> QED BY <1>1 DEF Gestures

LEMMA GestureKeeps ==
  ASSUME TouchInv, NEW kind \in Kinds, NEW place \in Places, Gesture(kind, place)
  PROVE  TouchInv'
  <1> USE DEF TouchInv, TouchTypes
  <1>1. chip' \in Gestures /\ chip'.id = chip.id + 1
    BY DEF Gesture, Gestures
  <1>2. UNCHANGED <<tp, got, touchpad_mq, handled, missed>>
    BY DEF Gesture
  <1>3. IF tp \in {"wait", "read", "send"} THEN sem' = sem + 1 /\ asked' = chip'.id
        ELSE UNCHANGED <<sem, asked>>
    BY DEF Gesture
  <1>4. chip.id \in Nat /\ got.id \in Nat
    BY DEF Gestures
  <1>5. TouchTypes'
    BY <1>1, <1>2, <1>3, <1>4
  <1>6. Told' /\ Answered'
    BY <1>1, <1>2, <1>3, <1>4 DEF Told, Answered, Newest
  <1>7. InOrder'
    <2>1. got.id <= chip'.id
      BY <1>1, <1>4 DEF InOrder
    <2> QED BY <1>2, <2>1 DEF InOrder
  <1> QED BY <1>5, <1>6, <1>7

\* cst816t_thread: it takes an interrupt, reads, and queues what it has read.
LEMMA ThreadKeeps == TouchInv /\ Cst816t => TouchInv'
  <1> SUFFICES ASSUME TouchInv, Cst816t PROVE TouchInv'
    OBVIOUS
  <1> USE DEF TouchInv, TouchTypes
  <1>1. CASE SetUp \/ TakeIrq \/ ReadFails
    <2>1. UNCHANGED <<chip, got, touchpad_mq, asked, handled>>
      BY <1>1 DEF SetUp, TakeIrq, ReadFails, ghosts
    <2>2. TouchTypes'
      BY <1>1, <2>1 DEF SetUp, TakeIrq, ReadFails, ghosts, Gestures
    <2>3. Told' /\ Answered'
      BY <1>1, <2>1 DEF SetUp, TakeIrq, ReadFails, ghosts, Told, Answered, Newest
    <2>4. InOrder'
      BY <2>1 DEF InOrder
    <2> QED BY <2>2, <2>3, <2>4
  <1>2. CASE Read
    <2>1. /\ got' = chip /\ tp = "read" /\ tp' = "send"
          /\ UNCHANGED <<chip, sem, touchpad_mq, asked, handled, missed>>
      BY <1>2 DEF Read, ghosts
    <2>2. Told' /\ Answered' /\ TouchTypes'
      BY <2>1 DEF Told, Answered, Newest
    <2>3. InOrder'
      <3>1. chip.id \in Nat /\ got.id \in Nat
        BY DEF Gestures
      <3>2. \A k \in DOMAIN touchpad_mq : touchpad_mq[k].id \in Nat
        BY QueuedIds
      <3> QED BY <2>1, <3>1, <3>2 DEF InOrder
    <2> QED BY <2>2, <2>3
  <1>3. CASE Send /\ Len(touchpad_mq) < TouchSize
    <2>1. /\ tp = "send" /\ tp' = "wait" /\ touchpad_mq' = Append(touchpad_mq, got)
          /\ UNCHANGED <<chip, got, sem, asked, handled, missed>>
      BY <1>3 DEF Send
    <2>2. /\ Len(touchpad_mq') = Len(touchpad_mq) + 1 /\ touchpad_mq'[Len(touchpad_mq')] = got
          /\ \A k \in DOMAIN touchpad_mq : touchpad_mq'[k] = touchpad_mq[k]
          /\ DOMAIN touchpad_mq' = DOMAIN touchpad_mq \cup {Len(touchpad_mq')}
          /\ touchpad_mq' # <<>>
      BY <2>1
    <2>3. TouchTypes'
      BY <2>1
    <2>4. Told' /\ Answered'
      BY <2>1, <2>2 DEF Told, Answered, Newest
    <2>5. InOrder'
      <3>1. got.id \in Nat /\ \A k \in DOMAIN touchpad_mq : touchpad_mq[k].id \in Nat
        BY QueuedIds DEF Gestures
      <3>2. \A k \in DOMAIN touchpad_mq : k < Len(touchpad_mq')
        BY <2>2
      <3>3. \A k \in DOMAIN touchpad_mq' : handled <= touchpad_mq'[k].id /\ touchpad_mq'[k].id <= got.id
        BY <2>2, <3>1 DEF InOrder
      <3>4. \A j, k \in DOMAIN touchpad_mq' : j <= k => touchpad_mq'[j].id <= touchpad_mq'[k].id
        <4> SUFFICES ASSUME NEW j \in DOMAIN touchpad_mq', NEW k \in DOMAIN touchpad_mq', j <= k
                     PROVE  touchpad_mq'[j].id <= touchpad_mq'[k].id
          OBVIOUS
        <4>1. CASE k = Len(touchpad_mq')
          BY <4>1, <2>2, <3>3
        <4>2. CASE k # Len(touchpad_mq')
          <5>1. j \in DOMAIN touchpad_mq /\ k \in DOMAIN touchpad_mq
            BY <4>2, <2>2, <3>2
          <5> QED BY <5>1, <2>2 DEF InOrder
        <4> QED BY <4>1, <4>2
      <3> QED BY <2>1, <3>3, <3>4 DEF InOrder
    <2> QED BY <2>3, <2>4, <2>5
  <1>4. CASE Send /\ ~(Len(touchpad_mq) < TouchSize)
    <2>1. /\ tp = "send" /\ tp' = "wait" /\ missed' = got.id
          /\ UNCHANGED <<chip, got, sem, touchpad_mq, asked, handled>>
      BY <1>4 DEF Send
    <2>2. got.id \in Nat
      BY DEF Gestures
    <2> QED BY <2>1, <2>2 DEF Told, Answered, Newest, InOrder
  <1> QED BY <1>1, <1>2, <1>3, <1>4 DEF Cst816t

\* touchpad_events takes the oldest.
LEMMA HandleKeeps == TouchInv /\ Handle => TouchInv'
  <1> SUFFICES ASSUME TouchInv, Handle PROVE TouchInv'
    OBVIOUS
  <1> USE DEF TouchInv, TouchTypes
  <1>1. /\ touchpad_mq # <<>> /\ touchpad_mq' = Tail(touchpad_mq) /\ handled' = touchpad_mq[1].id
        /\ UNCHANGED <<tp, chip, got, sem, asked, missed>>
    BY DEF Handle
  <1>2. /\ Len(touchpad_mq) \in Nat \ {0} /\ Len(touchpad_mq') = Len(touchpad_mq) - 1
        /\ DOMAIN touchpad_mq' = 1..Len(touchpad_mq')
        /\ \A k \in DOMAIN touchpad_mq' : touchpad_mq'[k] = touchpad_mq[k + 1] /\ k + 1 \in DOMAIN touchpad_mq
        /\ 1 \in DOMAIN touchpad_mq /\ touchpad_mq' \in Seq(Gestures)
    BY <1>1
  <1>3. TouchTypes'
    <2>1. handled' \in Nat
      BY <1>1, <1>2, QueuedIds
    <2> QED BY <1>1, <1>2, <2>1
  <1>4. Told'
    BY <1>1 DEF Told
  <1>5. Answered'
    <2>1. Newest' = Newest
      <3>1. CASE Len(touchpad_mq) = 1
        <4>1. touchpad_mq' = <<>> /\ Newest = touchpad_mq[1].id
          BY <1>1, <1>2, <3>1 DEF Newest
        <4> QED BY <1>1, <4>1 DEF Newest
      <3>2. CASE Len(touchpad_mq) # 1
        <4>1. touchpad_mq' # <<>> /\ Len(touchpad_mq') \in DOMAIN touchpad_mq'
          BY <1>2, <3>2
        <4>2. touchpad_mq'[Len(touchpad_mq')] = touchpad_mq[Len(touchpad_mq)]
          BY <1>2, <4>1
        <4> QED BY <1>1, <4>1, <4>2 DEF Newest
      <3> QED BY <3>1, <3>2
    <2> QED BY <1>1, <2>1 DEF Answered
  <1>6. InOrder'
    <2>1. \A k \in DOMAIN touchpad_mq' : handled' <= touchpad_mq'[k].id /\ touchpad_mq'[k].id <= got.id
      BY <1>1, <1>2 DEF InOrder
    <2>2. \A j, k \in DOMAIN touchpad_mq' : j <= k => touchpad_mq'[j].id <= touchpad_mq'[k].id
      BY <1>2 DEF InOrder
    <2>3. handled' <= got.id
      BY <1>1, <1>2 DEF InOrder
    <2> QED BY <1>1, <2>1, <2>2, <2>3 DEF InOrder
  <1> QED BY <1>3, <1>4, <1>5, <1>6

LEMMA TouchInvKept == TouchInv /\ [Next]_vars => TouchInv'
  <1> SUFFICES ASSUME TouchInv, [Next]_vars PROVE TouchInv'
    OBVIOUS
  <1>1. CASE Finger
    BY <1>1, GestureKeeps DEF Finger
  <1>2. CASE Cst816t
    BY <1>2, ThreadKeeps
  <1>3. CASE Handle
    BY <1>3, HandleKeeps
  <1>4. CASE UNCHANGED touchVars
    BY <1>4 DEF touchVars, ghosts, TouchInv, TouchTypes, Told, Answered, Newest, InOrder
  <1>5. CASE Handled \/ UNCHANGED vars
    <2>1. UNCHANGED touchVars
      BY <1>5 DEF Handled, vars
    <2> QED BY <2>1, <1>4
  <1> QED BY <1>1, <1>2, <1>3, <1>4, <1>5 DEF Next, Lvgl, PixelPump

\* However late cst816t_thread reads, and whatever readings fail and whatever the queue
\* has no room for, the newest gesture told of is handled, and none older after it,
\* unless it was its own reading that failed or found the queue full.
THEOREM NewestGestureIsNotLost == Spec => []NewestGestureArrives
  <1>1. Init => TouchInv
    BY TouchBegins
  <1>2. TouchInv => NewestGestureArrives
    BY DEF TouchInv, Answered, Newest, InOrder, NewestGestureArrives, AtRest
  <1> QED BY <1>1, <1>2, TouchInvKept, PTL DEF Spec
-----------------------------------------------------------------------------
\* The user interface, while no gesture is missed.

\* A set of numbers that is not empty has a least one.
LEMMA Least ==
  ASSUME NEW S, S \subseteq Nat, S # {}
  PROVE  Min(S) \in S /\ \A k \in S : Min(S) <= k
  <1> DEFINE R == {ss \in Nat \X Nat : ss[1] < ss[2]}
  <1>1. IsWellFoundedOn(R, Nat)
    BY NatLessThanWellFounded DEF OpToRel
  <1>2. \A k, n \in Nat : k < n => <<k, n>> \in R
    OBVIOUS
  <1> HIDE DEF R
  <1>3. PICK n \in S : \A k \in S : ~ (<<k, n>> \in R)
    BY <1>1, WFMin
  <1>4. \A k \in S : n <= k
    <2> SUFFICES ASSUME NEW k \in S PROVE n <= k
      OBVIOUS
    <2>1. ~ (<<k, n>> \in R)
      BY <1>3
    <2>2. k \in Nat /\ n \in Nat
      OBVIOUS
    <2>3. ~ (k < n)
      BY <1>2, <2>1, <2>2, Zenon
    <2> QED BY <2>2, <2>3
  <1> QED BY <1>3, <1>4 DEF Min

\* lv_nopoll_gesture and lv_nopoll_event reach the screen if and only if every object
\* below it lets the event up.
LEMMA ScreenIsReached ==
  ASSUME NEW place \in Places \cup {<<>>}
  PROVE  LET Up(flag) == /\ place # <<>> /\ "screen" \in Last(place)
                         /\ \A k \in 1..(Len(place) - 1) : flag \in place[k]
         IN /\ IsScreen(place, GestureTarget(place)) <=> Up("gesture_bubble")
            /\ (\E k \in EventTargets(place) : IsScreen(place, k)) <=> Up("event_bubble")
  <1> DEFINE still == {k \in DOMAIN place : "gesture_bubble" \notin place[k]}
             n == Len(place)
  <1>1. n \in Nat /\ DOMAIN place = 1..n /\ (place # <<>> <=> n > 0) /\ Last(place) = place[n]
    BY PanelAssumption DEF Last
  <1>2. \A k \in 1..n : "screen" \in place[k] => k = n /\ "gesture_bubble" \notin place[k]
    <2>1. CASE place \in Places
      BY <2>1, <1>1, ScreenAssumption, Zenon
    <2>2. CASE place = <<>>
      BY <2>2
    <2> QED BY <2>1, <2>2
  <1>3. still \subseteq 1..n /\ still \subseteq Nat
    BY <1>1
  <1>4. GestureTarget(place) = IF still = {} THEN 0 ELSE Min(still)
    BY DEF GestureTarget
  <1>5. still # {} => Min(still) \in still /\ \A k \in still : Min(still) <= k
    BY <1>3, Least
  <1>6. IsScreen(place, GestureTarget(place)) <=>
          /\ place # <<>> /\ "screen" \in Last(place)
          /\ \A k \in 1..(n - 1) : "gesture_bubble" \in place[k]
    <2>1. ASSUME IsScreen(place, GestureTarget(place))
          PROVE  /\ place # <<>> /\ "screen" \in Last(place)
                 /\ \A k \in 1..(n - 1) : "gesture_bubble" \in place[k]
      <3>1. still # {} /\ Min(still) \in still /\ "screen" \in place[Min(still)]
        BY <2>1, <1>4, <1>5 DEF IsScreen
      <3>2. Min(still) = n /\ n > 0
        <4>1. Min(still) \in 1..n
          BY <3>1, <1>3
        <4>2. Min(still) = n
          BY <4>1, <3>1, <1>2, Zenon
        <4>3. n \in 1..n
          BY <4>1, <4>2, Zenon
        <4>4. n > 0
          BY <4>3, <1>1
        <4> QED BY <4>2, <4>4, Zenon
      <3>3. ASSUME NEW k \in 1..(n - 1) PROVE "gesture_bubble" \in place[k]
        <4>1. k \in 1..n /\ ~(n <= k)
          BY <1>1
        <4>2. k \notin still
          BY <4>1, <3>1, <3>2, <1>5
        <4> QED BY <4>1, <4>2, <1>1
      <3> QED BY <3>1, <3>2, <3>3, <1>1
    <2>2. ASSUME place # <<>>, "screen" \in Last(place),
                 \A k \in 1..(n - 1) : "gesture_bubble" \in place[k]
          PROVE  IsScreen(place, GestureTarget(place))
      <3>0. n \in 1..n /\ "screen" \in place[n]
        BY <2>2, <1>1
      <3>1. n \in 1..n /\ "screen" \in place[n] /\ n \in still
        BY <3>0, <1>1, <1>2, Zenon
      <3>2. \A k \in still : k = n
        BY <2>2, <1>1
      <3>3. GestureTarget(place) = n
        BY <3>1, <3>2, <1>4, <1>5
      <3> QED BY <3>1, <3>3, <1>1 DEF IsScreen
    <2> QED BY <2>1, <2>2
  <1>7. (\E k \in EventTargets(place) : IsScreen(place, k)) <=>
          /\ place # <<>> /\ "screen" \in Last(place)
          /\ \A k \in 1..(n - 1) : "event_bubble" \in place[k]
    <2>1. \A k : k \in EventTargets(place) <=>
                   k \in 1..n /\ \A j \in 1..(k - 1) : "event_bubble" \in place[j]
      BY <1>1 DEF EventTargets
    <2>2. \A k \in 1..n : IsScreen(place, k) <=> "screen" \in place[k]
      BY DEF IsScreen
    <2>3. ASSUME NEW k \in EventTargets(place), IsScreen(place, k)
          PROVE  /\ place # <<>> /\ "screen" \in Last(place)
                 /\ \A j \in 1..(n - 1) : "event_bubble" \in place[j]
      <3>1. k \in 1..n /\ "screen" \in place[k] /\ \A j \in 1..(k - 1) : "event_bubble" \in place[j]
        BY <2>1, <2>2, <2>3
      <3>2. k = n /\ n > 0
        <4>1. k = n
          BY <3>1, <1>2, Zenon
        <4> QED BY <3>1, <4>1, <1>1
      <3> QED BY <3>1, <3>2, <1>1
    <2>4. ASSUME place # <<>>, "screen" \in Last(place), \A j \in 1..(n - 1) : "event_bubble" \in place[j]
          PROVE  \E k \in EventTargets(place) : IsScreen(place, k)
      <3>1. n \in 1..n
        BY <1>1, <2>4
      <3>2. n \in EventTargets(place) /\ IsScreen(place, n)
        BY <3>1, <2>1, <2>2, <2>4, <1>1
      <3> QED BY <3>2
    <2> QED BY <2>3, <2>4
  <1> QED BY <1>6, <1>7

\* So what touchpad_events does with a gesture is what the user means by it.
LEMMA DispatchIsMeant ==
  ASSUME NEW u, NEW g \in Gestures
  PROVE  Dispatched(u, g) = Meant(u, g)
  <1>1. g.place \in Places \cup {<<>>}
    BY DEF Gestures
  <1> QED BY <1>1, ScreenIsReached, Zenon DEF Dispatched, Meant


\* While nothing is missed, handling the gestures in the queue takes the user interface
\* from state to state, s, and handling the two after them, that have been read or are
\* to be read, takes it to what is wanted.
Passes(s) == /\ s[1] = ui
             /\ \A k \in 1..Len(touchpad_mq) : s[k + 1] = Meant(s[k], touchpad_mq[k])
Outstanding(u) == LET read == IF tp = "send" THEN Meant(u, got) ELSE u
                  IN IF tp = "read" \/ sem > 0 THEN Meant(read, chip) ELSE read
Wanted == \E s : Passes(s) /\ want = Outstanding(s[Len(touchpad_mq) + 1])
Sure == sure => sem \in {0, 1} /\ (tp = "read" => sem = 0) /\ Wanted

LEMMA SureBegins == Init => Sure
  <1> SUFFICES ASSUME Init PROVE Sure
    OBVIOUS
  <1> DEFINE s == [k \in {1} |-> ui]
  <1>1. touchpad_mq = <<>> /\ tp = "setup" /\ sem = 0 /\ want = ui
    BY DEF Init
  <1>2. s[1] = ui /\ Len(touchpad_mq) = 0
    BY <1>1
  <1> HIDE DEF s
  <1>3. Passes(s) /\ want = Outstanding(s[Len(touchpad_mq) + 1])
    BY <1>1, <1>2 DEF Passes, Outstanding
  <1> QED BY <1>1, <1>3 DEF Sure, Wanted

LEMMA GestureKeepsSure ==
  ASSUME TouchInv, Sure, NEW kind \in Kinds, NEW place \in Places, Gesture(kind, place)
  PROVE  Sure'
  <1>1. UNCHANGED <<tp, got, touchpad_mq, ui>> /\ tp \in {"setup", "wait", "read", "send", "stopped"}
    BY DEF Gesture, TouchInv, TouchTypes
  <1>2. CASE tp \in {"wait", "read", "send"} /\ sure'
    <2>1. sure /\ sem = 0 /\ tp # "read" /\ sem' = 1 /\ want' = Meant(want, chip')
      <3>1. sure /\ sem = 0 /\ tp # "read"
        BY <1>2, Zenon DEF Gesture
      <3> QED BY <1>2, <3>1 DEF Gesture
    <2>2. PICK s : Passes(s) /\ want = Outstanding(s[Len(touchpad_mq) + 1])
      BY <2>1, Zenon DEF Sure, Wanted
    <2>3. Passes(s)'
      BY <1>1, <2>2, Zenon DEF Passes
    <2>4. want' = Outstanding(s[Len(touchpad_mq) + 1])'
      BY <1>1, <2>1, <2>2 DEF Outstanding
    <2> QED BY <1>1, <2>1, <2>3, <2>4 DEF Sure, Wanted
  <1>3. CASE tp \in {"setup", "stopped"}
    <2>1. UNCHANGED <<sem, sure, want>>
      BY <1>3 DEF Gesture
    <2>2. sem = 0
      BY <1>3 DEF TouchInv, Told
    <2>3. ASSUME NEW s PROVE Passes(s) => Passes(s)'
      BY <1>1, Zenon DEF Passes
    <2>4. ASSUME NEW u PROVE Outstanding(u)' = Outstanding(u)
      BY <1>1, <1>3, <2>1, <2>2 DEF Outstanding
    <2>5. Wanted => Wanted'
      BY <1>1, <2>1, <2>3, <2>4, Zenon DEF Wanted
    <2> QED BY <1>1, <2>1, <2>5, Zenon DEF Sure
  <1> QED BY <1>1, <1>2, <1>3 DEF Sure

LEMMA ThreadKeepsSure ==
  ASSUME TouchInv, Sure, Cst816t PROVE Sure'
  <1>1. CASE SetUp \/ TakeIrq \/ Read
    <2>1. UNCHANGED <<touchpad_mq, ui, chip, sure, want>>
      BY <1>1 DEF SetUp, TakeIrq, Read, ghosts
    <2>2. ASSUME NEW s PROVE Passes(s) => Passes(s)'
      BY <2>1, Zenon DEF Passes
    <2>3. CASE sem \in {0, 1} /\ (tp = "read" => sem = 0) /\ Wanted
      <3>1. sem' \in {0, 1} /\ (tp' = "read" => sem' = 0)
        BY <1>1, <2>3 DEF SetUp, TakeIrq, Read
      <3>2. ASSUME NEW u PROVE Outstanding(u)' = Outstanding(u)
        BY <1>1, <2>1, <2>3 DEF SetUp, TakeIrq, Read, Outstanding, TouchInv, Told
      <3>3. Wanted'
        BY <2>1, <2>2, <2>3, <3>2, Zenon DEF Wanted
      <3> QED BY <3>1, <3>3 DEF Sure
    <2> QED BY <2>1, <2>3, Zenon DEF Sure
  <1>2. CASE ReadFails
    BY <1>2, Zenon DEF ReadFails, Sure
  <1>3. CASE Send /\ ~(Len(touchpad_mq) < TouchSize)
    BY <1>3, Zenon DEF Send, Sure
  <1>4. CASE Send /\ Len(touchpad_mq) < TouchSize /\ sure
    <2>1. /\ tp = "send" /\ tp' = "wait" /\ touchpad_mq' = Append(touchpad_mq, got)
          /\ UNCHANGED <<chip, got, sem, ui, sure, want>>
      BY <1>4 DEF Send
    <2>2. touchpad_mq \in Seq(Gestures) /\ got \in Gestures
      BY DEF TouchInv, TouchTypes
    <2> DEFINE n == Len(touchpad_mq)
    <2>3. /\ n \in Nat /\ Len(touchpad_mq') = n + 1 /\ touchpad_mq'[n + 1] = got
          /\ \A k \in 1..n : touchpad_mq'[k] = touchpad_mq[k]
      BY <2>1, <2>2
    <2>4. PICK s : Passes(s) /\ want = Outstanding(s[n + 1])
      BY <1>4, Zenon DEF Sure, Wanted
    <2>5. PICK z : z[n + 2] = Meant(s[n + 1], got) /\ \A k \in 1..(n + 1) : z[k] = s[k]
      <3> DEFINE y == [k \in 1..(n + 2) |-> IF k = n + 2 THEN Meant(s[n + 1], got) ELSE s[k]]
      <3>1. y[n + 2] = Meant(s[n + 1], got) /\ \A k \in 1..(n + 1) : y[k] = s[k]
        BY <2>3
      <3> HIDE DEF y
      <3> QED BY <3>1
    <2> HIDE DEF n
    <2>6. Passes(z)'
      <3>1. z[1] = ui'
        BY <2>1, <2>3, <2>4, <2>5 DEF Passes
      <3>2. ASSUME NEW k \in 1..(n + 1) PROVE z[k + 1] = Meant(z[k], touchpad_mq'[k])
        <4>1. CASE k = n + 1
          <5>1. k + 1 = n + 2
            BY <4>1, <2>3
          <5> QED BY <4>1, <5>1, <2>3, <2>5, Zenon
        <4>2. CASE k \in 1..n
          <5>1. k + 1 \in 1..(n + 1)
            BY <4>2, <2>3
          <5>2. s[k + 1] = Meant(s[k], touchpad_mq[k])
            BY <4>2, <2>4 DEF Passes, n
          <5> QED BY <4>2, <5>1, <5>2, <2>3, <2>5, Zenon
        <4> QED BY <4>1, <4>2, <2>3
      <3> QED BY <3>1, <3>2, <2>3, Zenon DEF Passes
    <2>7. Len(touchpad_mq') + 1 = n + 2
      BY <2>3
    <2>8. want' = Outstanding(z[Len(touchpad_mq) + 1])'
      BY <2>1, <2>4, <2>5, <2>7 DEF Outstanding
    <2>9. Wanted'
      BY <2>6, <2>8, Zenon DEF Wanted
    <2> QED BY <1>4, <2>1, <2>9 DEF Sure
  <1>5. CASE Send /\ Len(touchpad_mq) < TouchSize /\ ~sure
    BY <1>5, Zenon DEF Send, Sure
  <1> QED BY <1>1, <1>2, <1>3, <1>4, <1>5 DEF Cst816t

LEMMA HandleKeepsSure ==
  ASSUME TouchInv, Sure, Handle PROVE Sure'
  <1>1. /\ touchpad_mq # <<>> /\ touchpad_mq' = Tail(touchpad_mq) /\ ui' = Dispatched(ui, Head(touchpad_mq))
        /\ UNCHANGED <<tp, chip, got, sem, sure, want>>
    BY DEF Handle
  <1>2. touchpad_mq \in Seq(Gestures)
    BY DEF TouchInv, TouchTypes
  <1> DEFINE n == Len(touchpad_mq)
  <1>3. /\ n \in Nat \ {0} /\ Len(touchpad_mq') = n - 1
        /\ \A k \in 1..(n - 1) : touchpad_mq'[k] = touchpad_mq[k + 1] /\ k + 1 \in 1..n
        /\ Head(touchpad_mq) = touchpad_mq[1] /\ Head(touchpad_mq) \in Gestures /\ 1 \in 1..n
    BY <1>1, <1>2
  <1>4. ui' = Meant(ui, touchpad_mq[1])
    BY <1>1, <1>3, DispatchIsMeant
  <1>5. ASSUME Wanted PROVE Wanted'
    <2>1. PICK s : Passes(s) /\ want = Outstanding(s[n + 1])
      BY <1>5, Zenon DEF Wanted
    <2>2. PICK z : \A k \in 1..n : z[k] = s[k + 1]
      <3> DEFINE y == [k \in 1..n |-> s[k + 1]]
      <3>1. \A k \in 1..n : y[k] = s[k + 1]
        OBVIOUS
      <3> HIDE DEF y
      <3> QED BY <3>1
    <2> HIDE DEF n
    <2>3. z[1] = ui'
      <3>1. s[1 + 1] = Meant(s[1], touchpad_mq[1]) /\ s[1] = ui
        BY <1>3, <2>1, Zenon DEF Passes, n
      <3> QED BY <1>3, <1>4, <2>2, <3>1, Zenon
    <2>4. ASSUME NEW k \in 1..(n - 1) PROVE z[k + 1] = Meant(z[k], touchpad_mq'[k])
      <3>1. k \in 1..n /\ k + 1 \in 1..n /\ touchpad_mq'[k] = touchpad_mq[k + 1]
        BY <1>3
      <3>2. s[(k + 1) + 1] = Meant(s[k + 1], touchpad_mq[k + 1])
        BY <2>1, <3>1, Zenon DEF Passes, n
      <3> QED BY <2>2, <3>1, <3>2, Zenon
    <2>5. Passes(z)'
      BY <1>3, <2>3, <2>4, Zenon DEF Passes
    <2>6. Len(touchpad_mq') + 1 = n /\ n \in 1..n
      BY <1>3
    <2>7. want' = Outstanding(z[Len(touchpad_mq) + 1])'
      BY <1>1, <2>1, <2>2, <2>6 DEF Outstanding
    <2> QED BY <2>5, <2>7, Zenon DEF Wanted
  <1> QED BY <1>1, <1>5 DEF Sure

LEMMA SureKept == TouchInv /\ Sure /\ [Next]_vars => Sure'
  <1> SUFFICES ASSUME TouchInv, Sure, [Next]_vars PROVE Sure'
    OBVIOUS
  <1>1. CASE Finger
    BY <1>1, GestureKeepsSure DEF Finger
  <1>2. CASE Cst816t
    BY <1>2, ThreadKeepsSure
  <1>3. CASE Handle
    BY <1>3, HandleKeepsSure
  <1>4. CASE UNCHANGED touchVars
    <2>1. UNCHANGED <<tp, chip, got, sem, touchpad_mq, ui, sure, want>>
      BY <1>4 DEF touchVars, ghosts
    <2>2. ASSUME NEW s PROVE Passes(s) => Passes(s)'
      BY <2>1, Zenon DEF Passes
    <2>3. ASSUME NEW u PROVE Outstanding(u)' = Outstanding(u)
      BY <2>1 DEF Outstanding
    <2>4. Wanted => Wanted'
      BY <2>1, <2>2, <2>3, Zenon DEF Wanted
    <2> QED BY <2>1, <2>4, Zenon DEF Sure
  <1>5. CASE Handled \/ UNCHANGED vars
    <2>1. UNCHANGED touchVars
      BY <1>5 DEF Handled, vars
    <2> QED BY <2>1, <1>4
  <1> QED BY <1>1, <1>2, <1>3, <1>4, <1>5 DEF Next, Lvgl, PixelPump

\* As long as every gesture was read before the next was made, each is handled once, in
\* order, and by the screen if and only if the objects above the one touched let it up:
\* for any number of gestures, any queue and any tree of objects.
THEOREM GesturesAreMeant == Spec => []GesturesDoWhatIsMeant
  <1>1. Init => TouchInv /\ Sure
    BY TouchBegins, SureBegins
  <1>2. TouchInv /\ Sure /\ [Next]_vars => TouchInv' /\ Sure'
    BY TouchInvKept, SureKept
  <1>3. Sure => GesturesDoWhatIsMeant
    <2> SUFFICES ASSUME Sure, AtRest, sure PROVE ui = want
      BY DEF GesturesDoWhatIsMeant
    <2>1. PICK s : Passes(s) /\ want = Outstanding(s[Len(touchpad_mq) + 1])
      BY Zenon DEF Sure, Wanted
    <2>2. Len(touchpad_mq) + 1 = 1 /\ tp = "wait" /\ sem = 0
      BY DEF AtRest
    <2> QED BY <2>1, <2>2 DEF Passes, Outstanding
  <1> QED BY <1>1, <1>2, <1>3, PTL DEF Spec
=============================================================================

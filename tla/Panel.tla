------------------------------- MODULE Panel -------------------------------
(***************************************************************************)
(* Display and touchpad together (lvgl_touchpad.c, lv_nopoll.c, ui.c): the *)
(* touch controller interrupts, a thread reads its gesture and queues it,  *)
(* and the LVGL thread of Display hands the queued gestures to the user    *)
(* interface before it draws.  The controller keeps only the newest        *)
(* gesture; objects and their flags are LVGL's, and constants here.        *)
(***************************************************************************)
EXTENDS Display, FiniteSetsExt, SequencesExt

CONSTANTS MaxGestures,  \* bound on the gestures made
          MaxFailures,  \* bound on the readings that fail
          TouchSize,    \* the length of touchpad_mq
          TileNum,      \* TILE_NUM
          Kinds,        \* gestures that are made
          Places        \* where: the flags of the objects from the one touched up

ASSUME PanelAssumption ==
    /\ MaxGestures \in Nat /\ MaxFailures \in Nat /\ TouchSize \in Nat \ {0} /\ TileNum \in Nat \ {0}
    /\ Kinds \subseteq {"none", "click", "left", "right", "up"}
    /\ Places \subseteq Seq(SUBSET {"gesture_bubble", "event_bubble", "screen"})

\* A screen has no parent, and LVGL lets gestures up from objects that have one.
ASSUME ScreenAssumption ==
    \A place \in Places : \A k \in DOMAIN place :
        "screen" \in place[k] => k = Len(place) /\ "gesture_bubble" \notin place[k]

VARIABLES
    tp,           \* where cst816t_thread is
    chip,         \* the newest gesture, in the registers of the controller
    got,          \* the gesture the thread has read
    sem,          \* the count of cst816t_irq_sem
    touchpad_mq,  \* gestures to be handled
    ui,           \* current_tile and cnt
    \* what happened:
    failures,     \* readings that failed
    asked,        \* the newest gesture an interrupt told of
    handled,      \* the newest gesture that was handled
    missed,       \* the newest gesture whose reading failed or found the queue full
    sure,         \* every gesture told of so far was read before the next
    want          \* what ui becomes when every gesture told of is handled once

ghosts == <<failures, asked, handled, missed, sure, want>>
touchVars == <<tp, chip, got, sem, touchpad_mq, ui, ghosts>>
vars == <<displayVars, touchVars>>

Init == /\ DisplayInit
        /\ tp = "setup" /\ sem = 0 /\ touchpad_mq = <<>>
        /\ chip = [id |-> 0, kind |-> "none", place |-> <<>>]
        /\ got = chip
        /\ ui = [tile |-> 0, cnt |-> 1] /\ want = ui
        /\ failures = 0 /\ asked = 0 /\ handled = 0 /\ missed = 0 /\ sure = TRUE

\* A gesture sent to the screen, and any other event sent to it: scr_gesture_cb
\* and scr_event_cb.
Swiped(u, kind) ==
    [tile |-> CASE kind = "left" -> (u.tile + 1) % TileNum
                [] kind = "right" -> (u.tile + TileNum - 1) % TileNum
                [] OTHER -> u.tile,
     cnt |-> (u.cnt + 1) % 100]
Counted(u) == [u EXCEPT !.cnt = (u.cnt + 1) % 100]

\* What the user means by gesture g: the screen turns its tiles, or counts.
Meant(u, g) ==
    LET Up(flag) == /\ g.place # <<>> /\ "screen" \in Last(g.place)
                    /\ \A k \in 1..(Len(g.place) - 1) : flag \in g.place[k]
    IN CASE g.kind = "none" -> u
         [] g.kind = "click" -> IF Up("event_bubble") THEN Counted(u) ELSE u
         [] OTHER -> IF Up("gesture_bubble") THEN Swiped(u, g.kind) ELSE u
-----------------------------------------------------------------------------
\* cst816t_handler: the interrupt of a gesture, once the thread has asked for it.
Gesture(kind, place) ==
    /\ chip.id < MaxGestures
    /\ chip' = [id |-> chip.id + 1, kind |-> kind, place |-> place]
    /\ IF tp \in {"wait", "read", "send"}
       THEN /\ sem' = sem + 1
            /\ asked' = chip'.id
            /\ sure' = (sure /\ sem = 0 /\ tp # "read")
            /\ want' = Meant(want, chip')
       ELSE UNCHANGED <<sem, asked, sure, want>>
    /\ UNCHANGED <<displayVars, tp, got, touchpad_mq, ui, failures, handled, missed>>

\* cst816t_thread sets the controller up, or finds that it cannot and returns.
SetUp == /\ tp = "setup"
         /\ tp' \in {"wait", "stopped"}
         /\ UNCHANGED <<displayVars, chip, got, sem, touchpad_mq, ui, ghosts>>

TakeIrq == /\ tp = "wait" /\ sem > 0
           /\ sem' = sem - 1
           /\ tp' = "read"
           /\ UNCHANGED <<displayVars, chip, got, touchpad_mq, ui, ghosts>>

\* The thread reads whatever gesture is the newest now.
Read == /\ tp = "read" /\ tp' = "send"
        /\ got' = chip
        /\ UNCHANGED <<displayVars, chip, sem, touchpad_mq, ui, ghosts>>
ReadFails == /\ tp = "read" /\ tp' = "wait"
             /\ failures < MaxFailures /\ failures' = failures + 1
             /\ missed' = chip.id /\ sure' = FALSE
             /\ UNCHANGED <<displayVars, chip, got, sem, touchpad_mq, ui, asked, handled, want>>

\* Mutant of Send: one reading answers for all interrupts there have been.
SendAndClear ==
    /\ tp = "send" /\ tp' = "wait"
    /\ IF Len(touchpad_mq) < TouchSize
       THEN touchpad_mq' = Append(touchpad_mq, got) /\ UNCHANGED <<missed, sure>>
       ELSE missed' = got.id /\ sure' = FALSE /\ UNCHANGED touchpad_mq
    /\ sem' = 0
    /\ UNCHANGED <<displayVars, chip, got, ui, failures, asked, handled, want>>

\* It queues the gesture if there is room.
Send == /\ tp = "send" /\ tp' = "wait"
        /\ IF Len(touchpad_mq) < TouchSize
           THEN touchpad_mq' = Append(touchpad_mq, got) /\ UNCHANGED <<missed, sure>>
           ELSE missed' = got.id /\ sure' = FALSE /\ UNCHANGED touchpad_mq
        /\ UNCHANGED <<displayVars, chip, got, sem, ui, failures, asked, handled, want>>
-----------------------------------------------------------------------------
\* Mutant of GestureTarget: the search stops at the object touched.
TargetTouched(place) == IF place = <<>> THEN 0 ELSE 1

\* lv_nopoll_gesture: the first object without the flag, 0 if there is none.
GestureTarget(place) ==
    LET still == {k \in DOMAIN place : "gesture_bubble" \notin place[k]}
    IN IF still = {} THEN 0 ELSE Min(still)

\* lv_nopoll_event: every object up to the first without the flag.
EventTargets(place) ==
    {k \in DOMAIN place : \A j \in 1..(k - 1) : "event_bubble" \in place[j]}

IsScreen(place, k) == k # 0 /\ "screen" \in place[k]

\* The screen alone has callbacks.
Dispatched(u, g) ==
    CASE g.kind = "none" -> u
      [] g.kind = "click" -> IF \E k \in EventTargets(g.place) : IsScreen(g.place, k) THEN Counted(u) ELSE u
      [] OTHER -> IF IsScreen(g.place, GestureTarget(g.place)) THEN Swiped(u, g.kind) ELSE u

\* touchpad_events takes a gesture from the queue and sends it.
Handle ==
    /\ lv = "events" /\ touchpad_mq # <<>>
    /\ handled' = Head(touchpad_mq).id
    /\ ui' = Dispatched(ui, Head(touchpad_mq))
    /\ touchpad_mq' = Tail(touchpad_mq)
    /\ UNCHANGED <<displayVars, tp, chip, got, sem, failures, asked, missed, sure, want>>

\* The queue is empty: on to lv_task_handler.
Handled == /\ lv = "events" /\ touchpad_mq = <<>>
           /\ lv' = "task"
           /\ UNCHANGED <<spi, buf, cur, drawn, flushing, pixel_mq, pumpVars, wires, touchVars>>

\* The three threads and the finger.
Lvgl == Handle \/ Handled \/ (DrawNext /\ UNCHANGED touchVars)
PixelPump == PumpNext /\ UNCHANGED touchVars
Cst816t == SetUp \/ TakeIrq \/ Read \/ ReadFails \/ Send
Finger == \E kind \in Kinds, place \in Places : Gesture(kind, place)

Next == Lvgl \/ PixelPump \/ Cst816t \/ Finger

\* The threads are scheduled; nothing obliges the finger.
Fairness == WF_vars(Lvgl) /\ WF_vars(PixelPump) /\ WF_vars(Cst816t)
Spec == Init /\ [][Next]_vars /\ Fairness
-----------------------------------------------------------------------------
TypeOK == /\ DisplayTypeOK
          /\ tp \in {"setup", "wait", "read", "send", "stopped"}
          /\ sem \in 0..MaxGestures /\ failures \in 0..MaxFailures
          /\ Len(touchpad_mq) <= TouchSize
          /\ ui.tile \in 0..(TileNum - 1) /\ ui.cnt \in 0..99
          /\ {chip.id, asked, handled, missed} \subseteq 0..MaxGestures

\* Nothing is on its way: no interrupt to answer, no gesture in the queue.
AtRest == tp = "wait" /\ sem = 0 /\ touchpad_mq = <<>>

\* However late the thread reads, the newest gesture an interrupt told of has been
\* handled when nothing is on its way, and none older after it, unless it was its
\* own reading that failed or found the queue full (lvgl_touchpad.c:178-190).
NewestGestureArrives ==
    /\ AtRest => asked \in {handled, missed}
    /\ \A k \in DOMAIN touchpad_mq : handled <= touchpad_mq[k].id

\* As long as every gesture was read before the next was made, the tile shown and
\* the count are those of the gestures made: each is handled once, in order, by
\* the screen if the objects above the one touched let it through
\* (lv_nopoll.c:83-111, ui.c:20-72).
GesturesDoWhatIsMeant == AtRest /\ sure => ui = want

\* With the panel's bus found, a gesture an interrupt told of is handled or missed
\* in the end: LVGL never waits for good for an area to be sent
\* (lvgl_display.c:171-184).
GestureIsHandled ==
    \A g \in 1..MaxGestures : spi /\ asked >= g ~> handled >= g \/ missed >= g
=============================================================================

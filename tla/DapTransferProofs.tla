------------------------- MODULE DapTransferProofs -------------------------
(***************************************************************************)
(* Proofs about DapTransfer: for packets of any length and requests of all *)
(* kinds, responses of any size and any number of retries, the words of    *)
(* the response are those of its reads, an OK is true, the target takes    *)
(* the requests once and in order, and the probe keeps its place.          *)
(***************************************************************************)
EXTENDS DapTransfer, SequenceTheorems, TLAPS

\* The locations in which request n is under way.
Branches == {"match_post", "post", "read", "mask", "write"}
AtRequest == {"pipe", "drain", "match"} \cup Branches

\* Where the loop is, and what it knows of the request.
Loop ==
    /\ pc = "idle" => /\ synced /\ ~posted /\ ~verify /\ ~bufError /\ ack = "INVALID"
                      /\ count = 0 /\ looks = 0 /\ words = <<>> /\ log = <<>>
    /\ pc \in AtRequest => /\ count < Len(entries)
                           /\ entry \in Entries
                           /\ synced => entry = entries[n]
    /\ pc = "pipe" => posted /\ NeedsPostedRead(entry)
    /\ pc = "drain" => posted /\ ~NeedsPostedRead(entry)
    /\ pc \in Branches => pc = Branch(entry) /\ ~posted
    /\ pc = "match" => entry.rnw /\ entry.special /\ ~posted
    /\ pc \in {"last", "verify"} => (count = Len(entries) \/ bufError)
    /\ pc = "last" => posted
    /\ pc = "verify" => ~posted
    /\ pc = "done" /\ ack = "OK" => (count = Len(entries) \/ bufError)

\* A posted read is the last request that was done, and the target holds its word.
PostedIsLast ==
    /\ posted /\ synced => /\ count > 0
                           /\ NeedsPostedRead(entries[count]) /\ ~entries[count].special
    /\ posted /\ Trusted /\ pc # "done" => latched = count

\* The read whose word came last.
LastRead == IF words = <<>> THEN 0 ELSE words[Len(words)]

\* The number of requests whose words the response has.
Covered == IF posted /\ pc # "done" THEN count - 1 ELSE count

\* The words are those of the reads up to LastRead; a read that is posted and not yet
\* collected is the only one they lack, unless the response is full.
WordFits(k) == /\ words[k] \in PlainReads(count)
               /\ k = 1 => PlainReads(words[k] - 1) = {}
               /\ k > 1 => PlainReads(words[k] - 1) = PlainReads(words[k - 1])
Claims == Trusted /\ (pc = "done" => ack = "OK")
Fitting == Claims => \A k \in 1..Len(words) : WordFits(k)
Complete == Claims /\ ~bufError => /\ Values(words) = PlainReads(LastRead)
                                   /\ PlainReads(LastRead) = PlainReads(Covered)

\* The target has taken nothing beyond the request under way.
Taken == IF pc \in {"match", "done"} THEN n ELSE count
LogBounded == \A k \in 1..Len(log) : log[k] <= Taken

\* When a compare is about to look, the target holds the value its posting read asked
\* for, if it took that.
Comparing == pc = "match" /\ Trusted /\ NeedsPostedRead(entry) /\ n \in Values(log) => latched = n

\* A write that has failed late is still to be found out if the packet ends here.
LateFailureIsDue ==
    /\ pc = "fetch" /\ synced /\ port = "swd" /\ count > 0 /\ CheckedAtTheEnd(entries[count])
    => posted \/ verify \/ ~faulted

IInv == /\ TypeOK /\ Loop
        /\ PostedIsLast /\ LosesPlaceOnlyAtMatch
        /\ WordsAreRight /\ Fitting /\ Complete
        /\ LogBounded /\ EffectsInOrder /\ Comparing
        /\ LateFailureIsDue /\ LateFailuresAreReported

USE RetryAssumption, EntriesAssumption, CapacityAssumption
-----------------------------------------------------------------------------
(* The target, and dap_transfer_word. *)

TargetTypes == latched \in Nat /\ faulted \in BOOLEAN /\ log \in Seq(Nat) /\ data \in Nat

\* A JTAG target with a sticky error, whose OK means nothing.
Deceived == port = "jtag" /\ faulted

\* What a read leaves in the target and in the caller's variable.
LEMMA ReadWord ==
  ASSUME TargetTypes, NEW r \in Requests, r.rnw, NEW m \in Nat, NEW a, NEW v, Word(r, m, a, v)
  PROVE  /\ latched' \in Nat /\ faulted' = faulted /\ tries' = 0 /\ log' \in Seq(Nat)
         /\ log' = log \/ (~r.rdbuff /\ log' = Append(log, m))
         /\ ~Deceived /\ NeedsPostedRead(r) /\ ~r.rdbuff =>
               latched' = m \/ UNCHANGED <<latched, log>>
         /\ a = "OK" /\ ~Deceived /\ (NeedsPostedRead(r) \/ r.rdbuff) => v = latched
         /\ a = "OK" /\ ~Deceived /\ NeedsPostedRead(r) /\ ~r.rdbuff => latched' = m
         /\ a = "OK" /\ ~NeedsPostedRead(r) /\ ~r.rdbuff => v = m
         /\ a = "OK" /\ port = "swd" /\ (r.ap \/ r.rdbuff) => ~faulted
  <1> USE DEF TargetTypes
  <1>1. ASSUME NEW w, Read(r, m, w)
        PROVE  /\ latched' \in Nat /\ faulted' = faulted
               /\ log' = log \/ (~r.rdbuff /\ log' = Append(log, m))
               /\ ~Deceived /\ NeedsPostedRead(r) /\ ~r.rdbuff => latched' = m
               /\ ~Deceived /\ (NeedsPostedRead(r) \/ r.rdbuff) => w = latched
               /\ ~NeedsPostedRead(r) /\ ~r.rdbuff => w = m
               /\ port = "swd" /\ (r.ap \/ r.rdbuff) => ~faulted
    <2>1. CASE port = "swd" /\ SwdRead(r, m, w)
      BY <2>1 DEF SwdRead, Take, NeedsPostedRead
    <2>2. CASE port = "jtag" /\ JtagRead(r, m, w)
      BY <2>2 DEF JtagRead, Take, NeedsPostedRead, Deceived
    <2> QED BY <1>1, <2>1, <2>2 DEF Read
  <1>2. tries' = 0 /\ ((\E w : Read(r, m, w)) \/ UNCHANGED targetVars)
    BY DEF Word, Operation
  <1>3. a = "OK" => Read(r, m, v)
    BY DEF Word, Operation
  <1>4. /\ latched' \in Nat /\ faulted' = faulted
        /\ log' = log \/ (~r.rdbuff /\ log' = Append(log, m))
        /\ ~Deceived /\ NeedsPostedRead(r) /\ ~r.rdbuff => latched' = m \/ UNCHANGED <<latched, log>>
    BY <1>1, <1>2 DEF targetVars
  <1>5. log' \in Seq(Nat)
    <2>1. Append(log, m) \in Seq(Nat)
      OBVIOUS
    <2> QED BY <1>4, <2>1
  <1> QED BY <1>1, <1>2, <1>3, <1>4, <1>5

\* What a write leaves in the target.
LEMMA WriteWord ==
  ASSUME TargetTypes, NEW r \in Requests, ~r.rnw, ~r.rdbuff, NEW m \in Nat,
         NEW a, NEW v, Word(r, m, a, v)
  PROVE  /\ latched' \in Nat /\ faulted' \in BOOLEAN /\ tries' = 0
         /\ faulted => faulted'
         /\ log' = log \/ log' = Append(log, m)
         /\ log' \in Seq(Nat)
  <1> USE DEF TargetTypes
  <1>1. tries' = 0 /\ (Write(r, m) \/ UNCHANGED targetVars)
    BY DEF Word, Operation
  <1>2. Append(log, m) \in Seq(Nat)
    OBVIOUS
  <1>3. CASE port = "swd" /\ SwdWrite(r, m)
    BY <1>1, <1>2, <1>3 DEF SwdWrite, Take
  <1>4. CASE port = "jtag" /\ JtagWrite(r, m)
    BY <1>1, <1>2, <1>4 DEF JtagWrite, Take
  <1>5. CASE UNCHANGED targetVars
    BY <1>1, <1>5 DEF targetVars
  <1> QED BY <1>1, <1>3, <1>4, <1>5 DEF Write
-----------------------------------------------------------------------------
(* The words of the response. *)

\* dap_resp_add_word adds the word or fails for good.
LEMMA AddWordAdds ==
  ASSUME words \in Seq(Nat), Len(words) <= Capacity, bufError \in BOOLEAN, NEW v \in Nat, AddWord(v)
  PROVE  /\ words' \in Seq(Nat) /\ Len(words') <= Capacity /\ bufError' \in BOOLEAN
         /\ \/ bufError' /\ words' = words
            \/ ~bufError /\ ~bufError' /\ words' = Append(words, v)
  <1>1. CASE bufError \/ Len(words) = Capacity
    BY <1>1 DEF AddWord
  <1>2. CASE ~(bufError \/ Len(words) = Capacity)
    <2>1. words' = Append(words, v) /\ ~bufError' /\ bufError' \in BOOLEAN
      BY <1>2 DEF AddWord
    <2>2. Len(words') = Len(words) + 1 /\ words' \in Seq(Nat)
      BY <2>1
    <2> QED BY <1>2, <2>1, <2>2
  <1> QED BY <1>1, <1>2

\* The reads of the first requests of a packet, one request after the other.
LEMMA PlainReadsGrow ==
  /\ PlainReads(0) = {}
  /\ \A k \in Nat : PlainReads(k + 1) = IF PlainRead(k + 1) THEN PlainReads(k) \cup {k + 1}
                                        ELSE PlainReads(k)
  /\ \A j, k \in Nat : j <= k => PlainReads(j) \subseteq PlainReads(k)
  /\ \A k \in Nat : PlainReads(k) \subseteq 1..k
  BY DEF PlainReads

LEMMA SamePacket ==
  ASSUME entries' = entries
  PROVE  /\ \A k : PlainRead(k)' = PlainRead(k)
         /\ \A k : PlainReads(k)' = PlainReads(k)
  BY DEF PlainRead, PlainReads

\* Words that fit go on to fit while the packet goes on.
LEMMA FitsOn ==
  ASSUME entries' = entries, count \in Nat, count' \in Nat, count <= count',
         NEW k, words'[k] = words[k], k > 1 => words'[k - 1] = words[k - 1], WordFits(k)
  PROVE  WordFits(k)'
  <1>1. words[k] \in PlainReads(count')
    BY PlainReadsGrow DEF WordFits
  <1>2. \A j : PlainReads(j)' = PlainReads(j)
    BY SamePacket
  <1> QED BY <1>1, <1>2 DEF WordFits

\* A step that adds no word and leaves the same reads to be answered.
LEMMA NoWord ==
  ASSUME TypeOK, Fitting, Complete, pc # "done",
         UNCHANGED <<words, bufError, entries>>, Trusted' => Trusted,
         count' \in Nat, count <= count',
         Claims' /\ ~bufError => PlainReads(Covered') = PlainReads(Covered)
  PROVE  (Fitting /\ Complete /\ WordsAreRight)'
  <1>1. Trusted' => \A k \in 1..Len(words') : WordFits(k)'
    BY FitsOn DEF TypeOK, Fitting, Claims
  <1>2. Fitting' /\ WordsAreRight'
    BY <1>1 DEF Fitting, Claims, WordsAreRight, WordFits
  <1>3. Complete'
    <2>1. \A k : PlainReads(k)' = PlainReads(k)
      BY SamePacket
    <2>2. LastRead' = LastRead /\ Values(words') = Values(words)
      BY DEF LastRead, Values
    <2> QED BY <2>1, <2>2 DEF Complete, Claims
  <1> QED BY <1>2, <1>3

\* A step that adds the word of the next read.
LEMMA OneWord ==
  ASSUME TypeOK, Fitting, Complete, pc # "done", NEW v \in Nat, AddWord(v),
         entries' = entries, Trusted' => Trusted, count' \in Nat, count <= count',
         pc' = "done" => ack' = "OK",
         Trusted' => /\ PlainRead(v) /\ 1 <= v /\ v <= count'
                     /\ PlainReads(v - 1) = PlainReads(Covered)
                     /\ PlainReads(Covered') = PlainReads(v)
  PROVE  (Fitting /\ Complete /\ WordsAreRight)'
  <1>1. \A k : PlainReads(k)' = PlainReads(k)
    BY SamePacket
  <1>2. words \in Seq(Nat) /\ Len(words) \in Nat /\ bufError \in BOOLEAN /\ count \in Nat
    BY DEF TypeOK
  <1>3. CASE bufError' /\ words' = words
    <2>1. Trusted' => \A k \in 1..Len(words') : WordFits(k)'
      BY <1>3, FitsOn DEF TypeOK, Fitting, Claims
    <2> QED BY <1>3, <2>1 DEF Fitting, Complete, Claims, WordsAreRight, WordFits
  <1>4. CASE ~bufError /\ ~bufError' /\ words' = Append(words, v)
    <2> SUFFICES ASSUME Trusted' PROVE (Fitting /\ Complete /\ WordsAreRight)'
      BY DEF Fitting, Complete, Claims, WordsAreRight
    <2>1. /\ \A k \in 1..Len(words) : WordFits(k)
          /\ Values(words) = PlainReads(LastRead) /\ PlainReads(LastRead) = PlainReads(v - 1)
      BY <1>4 DEF Fitting, Complete, Claims
    <2>2. /\ Len(words') = Len(words) + 1 /\ words'[Len(words')] = v
          /\ \A k \in 1..Len(words) : words'[k] = words[k]
      BY <1>2, <1>4
    <2>3. ASSUME NEW k \in 1..Len(words) PROVE WordFits(k)'
      <3>1. count \in Nat /\ words'[k] = words[k] /\ (k > 1 => words'[k - 1] = words[k - 1])
        BY <1>2, <2>2
      <3> QED BY <2>1, <3>1, FitsOn
    <2>4. ASSUME NEW k \in Nat, k = Len(words') PROVE WordFits(k)'
      <3>1. v \in PlainReads(count')
        BY DEF PlainReads
      <3>2. CASE Len(words) = 0
        <4>1. PlainReads(v - 1) = {}
          BY <1>2, <2>1, <3>2, PlainReadsGrow DEF LastRead
        <4>2. words'[k] = v /\ k = 1
          BY <1>2, <2>2, <2>4, <3>2
        <4> QED BY <1>1, <3>1, <4>1, <4>2 DEF WordFits
      <3>3. CASE Len(words) # 0
        <4>1. words'[k] = v /\ k > 1 /\ words'[k - 1] = LastRead
          BY <1>2, <2>2, <2>4, <3>3 DEF LastRead
        <4> QED BY <1>1, <2>1, <3>1, <4>1 DEF WordFits
      <3> QED BY <3>2, <3>3
    <2>5. \A k \in 1..Len(words') : WordFits(k)'
      <3>1. \A k \in 1..Len(words') : k \in 1..Len(words) \/ (k \in Nat /\ k = Len(words'))
        BY <1>2, <2>2
      <3> QED BY <2>3, <2>4, <3>1
    <2>6. LastRead' = v
      BY <1>2, <1>4, <2>2 DEF LastRead
    <2>7. Values(words') = Values(words) \cup {v}
      BY <1>2, <2>2 DEF Values
    <2>8. PlainReads(v) = PlainReads(v - 1) \cup {v}
      BY DEF PlainReads
    <2>9. Complete'
      BY <1>1, <2>1, <2>6, <2>7, <2>8 DEF Complete
    <2> QED BY <2>5, <2>9 DEF Fitting, WordsAreRight, WordFits
  <1> QED BY <1>2, <1>3, <1>4, AddWordAdds DEF TypeOK
-----------------------------------------------------------------------------
(* The transfers the target took. *)

\* A step in which the target takes nothing, or the request under way.
LEMMA LogGrows ==
  ASSUME TypeOK, Loop, LogBounded, EffectsInOrder, pc \notin {"idle", "done"},
         NEW m \in Nat, log' = log \/ log' = Append(log, m),
         m <= n, Trusted' /\ ~bufError' => m = n,
         entries' = entries, bufError => bufError', Trusted' => Trusted,
         count' \in Nat, Taken <= Taken', log' # log => n <= Taken'
  PROVE  (LogBounded /\ EffectsInOrder)'
  <1>1. log \in Seq(Nat) /\ Len(log) \in Nat /\ count \in Nat /\ bufError \in BOOLEAN
    BY DEF TypeOK
  <1>2. Taken \in Nat /\ Taken' \in Nat
    <2>1. n \in Nat
      BY <1>1 DEF n
    <2>2. n' \in Nat
      <3>1. \A k \in Nat : k + 1 \in Nat
        OBVIOUS
      <3> QED BY <3>1, Zenon DEF n
    <2> QED BY <1>1, <2>1, <2>2 DEF Taken
  <1>3. CASE log' = log
    BY <1>1, <1>2, <1>3 DEF LogBounded, EffectsInOrder
  <1>4. CASE log' # log
    <2>1. /\ log' = Append(log, m)
          /\ Len(log') = Len(log) + 1 /\ log'[Len(log) + 1] = m
          /\ \A k \in 1..Len(log) : log'[k] = log[k] /\ log[k] \in Nat
      BY <1>1, <1>4
    <2>2. LogBounded'
      BY <1>1, <1>2, <1>4, <2>1 DEF LogBounded, n
    <2>3. EffectsInOrder'
      <3> SUFFICES ASSUME Trusted', ~bufError', NEW i \in 1..Len(log'), NEW j \in 1..Len(log'), i < j
                   PROVE  log'[i] < log'[j] \/ (log'[i] = log'[j] /\ entries[log'[i]].special)
        BY DEF EffectsInOrder
      <3>1. CASE j # Len(log')
        <4>1. i \in 1..Len(log) /\ j \in 1..Len(log)
          BY <1>1, <2>1, <3>1
        <4> QED BY <2>1, <4>1 DEF EffectsInOrder
      <3>2. CASE j = Len(log')
        <4>1. i \in 1..Len(log) /\ log'[j] = n /\ log[i] <= Taken
          BY <1>1, <2>1, <3>2 DEF LogBounded
        <4>2. pc = "match" => entries[n].special
          BY DEF Loop, AtRequest, Trusted
        <4> QED BY <1>1, <2>1, <4>1, <4>2 DEF Taken, n
      <3> QED BY <3>1, <3>2
    <2> QED BY <2>2, <2>3
  <1> QED BY <1>3, <1>4
-----------------------------------------------------------------------------
(* The steps of dap_transfer. *)

\* With nothing done yet there is nothing to show for it.
Fresh == /\ pc \in {"idle", "fetch"} /\ synced /\ ~posted /\ ~verify /\ ~bufError
         /\ ack = "INVALID" /\ count = 0 /\ looks = 0 /\ words = <<>> /\ log = <<>>
Parts == /\ Loop /\ PostedIsLast /\ LosesPlaceOnlyAtMatch
         /\ WordsAreRight /\ Fitting /\ Complete
         /\ LogBounded /\ EffectsInOrder /\ Comparing
         /\ LateFailureIsDue /\ LateFailuresAreReported

LEMMA FreshPacket == Fresh => Parts
  <1> SUFFICES ASSUME Fresh PROVE Parts
    OBVIOUS
  <1> USE DEF Fresh
  <1>1. Len(words) = 0 /\ Len(log) = 0
    OBVIOUS
  <1>2. Loop /\ PostedIsLast /\ LosesPlaceOnlyAtMatch /\ Comparing
    BY DEF Loop, AtRequest, Branches, PostedIsLast, LosesPlaceOnlyAtMatch, Comparing
  <1>3. WordsAreRight /\ Fitting /\ LogBounded /\ EffectsInOrder
    BY <1>1 DEF WordsAreRight, Fitting, LogBounded, EffectsInOrder
  <1>4. Complete
    <2>1. Values(words) = {} /\ PlainReads(0) = {}
      BY <1>1, PlainReadsGrow DEF Values
    <2> QED BY <2>1 DEF Complete, LastRead, Covered
  <1>5. LateFailureIsDue /\ LateFailuresAreReported
    BY DEF LateFailureIsDue, LateFailuresAreReported
  <1> QED BY <1>2, <1>3, <1>4, <1>5 DEF Parts

LEMMA InitKeeps == Init => IInv
  <1> SUFFICES ASSUME Init PROVE IInv
    OBVIOUS
  <1>1. TypeOK
    <2>1. /\ entries \in Seq(Entries) /\ words \in Seq(Nat) /\ log \in Seq(Nat)
          /\ Len(words) = 0 /\ Len(entries) = 0
      BY DEF Init
    <2>2. entry \in Requests
      BY DEF Init, Requests, Rdbuff
    <2>3. ack \in Acks /\ port \in Ports
      BY DEF Init, Acks
    <2>4. count \in 0..Len(entries) /\ retries \in 0..MaxRetry /\ matchRetries \in 0..MaxRetry
      BY <2>1, RetryAssumption DEF Init
    <2>5. /\ looks \in Nat /\ tries \in Nat /\ data \in Nat /\ latched \in Nat
          /\ synced \in BOOLEAN /\ posted \in BOOLEAN /\ verify \in BOOLEAN /\ bufError \in BOOLEAN
          /\ faulted \in BOOLEAN /\ pc \in {"idle", "done", "fetch", "mask"}
      BY <2>1 DEF Init
    <2>6. Len(words) <= Capacity
      BY <2>1
    <2> QED BY <2>1, <2>2, <2>3, <2>4, <2>5, <2>6 DEF TypeOK
  <1>2. Parts
    BY FreshPacket DEF Init, Fresh
  <1> QED BY <1>1, <1>2 DEF IInv, Parts

LEMMA StartKeeps == ASSUME IInv, Start PROVE IInv'
  <1>1. Fresh'
    BY DEF IInv, Loop, Start, Fresh, loopVars, respVars, wordVars
  <1>2. (Fresh => Parts)'
    BY FreshPacket, PTL
  <1>3. TypeOK'
    <2>1. entries' \in Seq(Entries) /\ Len(entries') \in Nat
      BY DEF Start
    <2>2. count' \in 0..Len(entries')
      BY <1>1, <2>1 DEF Fresh
    <2> QED BY <1>1, <2>1, <2>2 DEF IInv, TypeOK, Start, Fresh, loopVars, respVars, wordVars
  <1> QED BY <1>1, <1>2, <1>3 DEF IInv, Parts

LEMMA RespondKeeps == ASSUME IInv, Respond PROVE IInv'
  <1>1. Fresh'
    BY DEF Respond, Fresh
  <1>2. (Fresh => Parts)'
    BY FreshPacket, PTL
  <1>3. TypeOK'
    <2>1. /\ entries' \in Seq(Entries) /\ words' \in Seq(Nat) /\ log' \in Seq(Nat)
          /\ Len(words') = 0 /\ Len(entries') = 0
      BY DEF Respond
    <2>2. entry' \in Requests
      BY DEF Respond, Requests, Rdbuff
    <2>3. ack' \in Acks /\ port' \in Ports /\ faulted' \in BOOLEAN
      BY DEF Respond, Acks, IInv, TypeOK
    <2>4. count' \in 0..Len(entries') /\ retries' \in 0..MaxRetry /\ matchRetries' \in 0..MaxRetry
      BY <2>1, RetryAssumption DEF Respond
    <2>5. /\ looks' \in Nat /\ tries' \in Nat /\ data' \in Nat /\ latched' \in Nat
          /\ synced' \in BOOLEAN /\ posted' \in BOOLEAN /\ verify' \in BOOLEAN /\ bufError' \in BOOLEAN
          /\ pc' \in {"idle", "done", "fetch", "mask"}
      BY <2>1 DEF Respond
    <2>6. Len(words') <= Capacity
      BY <2>1
    <2> QED BY <2>1, <2>2, <2>3, <2>4, <2>5, <2>6 DEF TypeOK
  <1> QED BY <1>1, <1>2, <1>3 DEF IInv, Parts

\* What a step needs to keep the types: the packet and the settings stay.
LEMMA TypesStay ==
  ASSUME TypeOK, UNCHANGED hostVars,
         pc' \in Calls \cup {"idle", "done", "fetch", "mask"}, entry' \in Requests,
         synced' \in BOOLEAN, posted' \in BOOLEAN, verify' \in BOOLEAN,
         ack' \in Acks \cup {"MISMATCH"}, count' \in 0..Len(entries),
         tries' \in Nat, looks' \in Nat,
         words' \in Seq(Nat), Len(words') <= Capacity, bufError' \in BOOLEAN,
         data' \in Nat, latched' \in Nat, faulted' \in BOOLEAN, log' \in Seq(Nat)
  PROVE  TypeOK'
  BY DEF TypeOK, hostVars

LEMMA FetchKeeps == ASSUME IInv, Fetch PROVE IInv'
  <1>1. /\ UNCHANGED <<port, retries, matchRetries, entries, synced, posted, ack, count, looks,
                       words, bufError, tries, data, latched, faulted, log>>
        /\ pc = "fetch" /\ count < Len(entries) /\ ~bufError /\ ~verify'
        /\ pc' = IF ~posted THEN Branch(entry')
                 ELSE IF NeedsPostedRead(entry') THEN "pipe" ELSE "drain"
    BY DEF Fetch, hostVars, respVars, wordVars
  <1>2. count \in Nat /\ Len(entries) \in Nat /\ n \in 1..Len(entries)
    BY <1>1 DEF IInv, TypeOK, n
  <1>3. entry' \in Entries /\ (synced => entry' = entries[n])
    BY <1>2 DEF Fetch, IInv, TypeOK
  <1>4. /\ pc' \in AtRequest /\ Branch(entry') \in Branches \cup {"match"}
        /\ Branch(entry') = "match" => /\ entry'.rnw /\ entry'.special
                                       /\ ~NeedsPostedRead(entry')
    BY <1>1 DEF Branch, AtRequest, Branches
  <1>5. TypeOK'
    <2>1. entry' \in Requests
      BY <1>3 DEF Entries
    <2>2. pc' \in Calls \cup {"mask"}
      BY <1>4 DEF AtRequest, Branches, Calls
    <2>3. TypeOK /\ FALSE \in BOOLEAN
      BY DEF IInv
    <2>4. /\ synced' \in BOOLEAN /\ posted' \in BOOLEAN /\ ack' \in Acks \cup {"MISMATCH"}
          /\ count' \in 0..Len(entries) /\ tries' \in Nat /\ looks' \in Nat
          /\ words' \in Seq(Nat) /\ Len(words') <= Capacity /\ bufError' \in BOOLEAN
          /\ data' \in Nat /\ latched' \in Nat /\ faulted' \in BOOLEAN /\ log' \in Seq(Nat)
      BY <1>1, <2>3 DEF TypeOK
    <2>5. verify' \in BOOLEAN /\ UNCHANGED hostVars
      BY <1>1 DEF hostVars, Fetch
    <2> QED BY <2>1, <2>2, <2>3, <2>4, <2>5, TypesStay
  <1>6. Trusted' = Trusted /\ (NeedsPostedRead(entry))' = NeedsPostedRead(entry')
        /\ n' = n /\ (Branch(entry))' = Branch(entry')
    BY <1>1 DEF Trusted, NeedsPostedRead, n, Branch
  <1>7. Loop'
    <2>1. pc' \notin {"idle", "last", "verify", "done"}
      BY <1>4 DEF AtRequest, Branches
    <2>2. /\ pc' = "pipe" => posted /\ NeedsPostedRead(entry')
          /\ pc' = "drain" => posted /\ ~NeedsPostedRead(entry')
          /\ pc' \in Branches \cup {"match"} => pc' = Branch(entry') /\ ~posted
      BY <1>1, <1>4 DEF Branches
    <2> QED BY <1>1, <1>3, <1>4, <1>6, <2>1, <2>2 DEF Loop
  <1>8. PostedIsLast' /\ LosesPlaceOnlyAtMatch'
    BY <1>1, <1>6 DEF IInv, PostedIsLast, LosesPlaceOnlyAtMatch, NeedsPostedRead
  <1>9. (Fitting /\ Complete /\ WordsAreRight)'
    <2>1. pc' # "done" /\ pc # "done" /\ Covered' = Covered
      BY <1>1, <1>4 DEF AtRequest, Branches, Covered
    <2> QED BY <1>1, <1>2, <1>6, <2>1, NoWord DEF IInv
  <1>10. LogBounded' /\ EffectsInOrder'
    <2>1. \A k \in 1..Len(log) : log[k] \in Nat /\ log[k] <= count
      BY <1>1 DEF IInv, TypeOK, LogBounded, Taken
    <2>2. Taken' = count \/ Taken' = n
      BY <1>1, <1>6 DEF Taken
    <2> QED BY <1>1, <1>2, <1>6, <2>1, <2>2 DEF IInv, LogBounded, EffectsInOrder, n
  <1>11. Comparing' /\ LateFailureIsDue' /\ LateFailuresAreReported'
    BY <1>1, <1>4, <1>6
       DEF Comparing, LateFailureIsDue, LateFailuresAreReported, AtRequest, Branches
  <1> QED BY <1>5, <1>7, <1>8, <1>9, <1>10, <1>11 DEF IInv

LEMMA LeaveKeeps == ASSUME IInv, Leave PROVE IInv'
  <1>1. /\ UNCHANGED <<port, retries, matchRetries, entries, entry, synced, verify, posted, ack,
                       count, looks, words, bufError, tries, data, latched, faulted, log>>
        /\ pc = "fetch" /\ (count = Len(entries) \/ bufError)
        /\ \/ pc' = "last" /\ posted
           \/ pc' = "verify" /\ ~posted
           \/ pc' = "done" /\ ~(ack = "OK" /\ (posted \/ verify))
    BY DEF Leave, hostVars, loopVars, respVars, wordVars
  <1>2. TypeOK'
    BY <1>1, TypesStay DEF IInv, TypeOK, hostVars, Calls
  <1>3. count \in Nat /\ Trusted' = Trusted /\ n' = n
    BY <1>1 DEF IInv, TypeOK, Trusted, n
  <1>4. Loop'
    BY <1>1 DEF Loop, AtRequest, Branches
  <1>5. PostedIsLast' /\ LosesPlaceOnlyAtMatch'
    BY <1>1, <1>3 DEF IInv, PostedIsLast, LosesPlaceOnlyAtMatch, NeedsPostedRead
  <1>6. (Fitting /\ Complete /\ WordsAreRight)'
    <2>1. Claims' => Covered' = Covered
      BY <1>1 DEF Claims, Covered
    <2> QED BY <1>1, <1>3, <2>1, NoWord DEF IInv
  <1>7. LogBounded' /\ EffectsInOrder'
    <2>1. \A k \in 1..Len(log) : log[k] \in Nat /\ log[k] <= count
      BY <1>1 DEF IInv, TypeOK, LogBounded, Taken
    <2>2. Taken' = count \/ Taken' = n
      BY <1>1, <1>3 DEF Taken
    <2> QED BY <1>1, <1>3, <2>1, <2>2 DEF IInv, LogBounded, EffectsInOrder, n
  <1>8. Comparing' /\ LateFailureIsDue'
    BY <1>1 DEF Comparing, LateFailureIsDue
  <1>9. LateFailuresAreReported'
    <2> SUFFICES ASSUME pc' = "done", ack = "OK", ~bufError, synced, port = "swd", entries # <<>>,
                        CheckedAtTheEnd(entries[Len(entries)])
                 PROVE  ~faulted
      BY <1>1 DEF LateFailuresAreReported, CheckedAtTheEnd
    <2>1. count = Len(entries) /\ count > 0 /\ ~posted /\ ~verify
      BY <1>1, <1>3 DEF IInv, TypeOK
    <2> QED BY <1>1, <2>1 DEF IInv, LateFailureIsDue
  <1> QED BY <1>2, <1>4, <1>5, <1>6, <1>7, <1>8, <1>9 DEF IInv

\* Nothing depends on the tries that are left.
LEMMA TriesDoNotMatter ==
  ASSUME IInv,
         UNCHANGED <<pc, port, retries, matchRetries, entries, entry, synced, verify, posted, ack,
                     count, looks, words, bufError, data, latched, faulted, log>>
  PROVE  Parts'
  <1>1. Parts
    BY DEF IInv, Parts
  <1>2. Trusted' = Trusted /\ LastRead' = LastRead /\ Covered' = Covered /\ Taken' = Taken /\ n' = n
    BY <1>1 DEF Trusted, LastRead, Covered, Taken, n
  <1>3. \A k : PlainReads(k)' = PlainReads(k)
    BY SamePacket
  <1>4. Loop' /\ PostedIsLast' /\ LosesPlaceOnlyAtMatch' /\ LogBounded' /\ EffectsInOrder'
    BY <1>1, <1>2
       DEF Parts, Loop, PostedIsLast, LosesPlaceOnlyAtMatch, LogBounded, EffectsInOrder, Branch, NeedsPostedRead
  <1>5. Comparing' /\ LateFailureIsDue' /\ LateFailuresAreReported'
    BY <1>1, <1>2
       DEF Parts, Comparing, LateFailureIsDue, LateFailuresAreReported, CheckedAtTheEnd, NeedsPostedRead, Values
  <1>6. WordsAreRight' /\ Fitting' /\ Complete'
    BY <1>1, <1>2, <1>3 DEF Parts, WordsAreRight, Fitting, Complete, WordFits, Claims, Values
  <1> QED BY <1>4, <1>5, <1>6 DEF Parts

LEMMA RetryKeeps == ASSUME IInv, Retry PROVE IInv'
  <1>1. /\ UNCHANGED <<pc, port, retries, matchRetries, entries, entry, synced, verify, posted, ack,
                       count, looks, words, bufError, data, latched, faulted, log>>
        /\ tries' = tries + 1
    BY DEF Retry, RetryWord, hostVars, loopVars, respVars
  <1>2. TypeOK'
    BY <1>1 DEF IInv, TypeOK
  <1>3. Parts'
    BY <1>1, TriesDoNotMatter
  <1> QED BY <1>2, <1>3 DEF IInv, Parts

\* A place that was lost was lost where it was lost.
LEMMA StillLost ==
  ASSUME LosesPlaceOnlyAtMatch, UNCHANGED <<port, entries>>, entries \in Seq(Entries),
         count \in Nat, count' \in Nat, count <= count', ~synced' => ~synced
  PROVE  LosesPlaceOnlyAtMatch'
  <1> SUFFICES ASSUME ~synced' PROVE LosesPlaceOnlyAtMatch'
    BY DEF LosesPlaceOnlyAtMatch
  <1>1. PICK i \in 1..Len(entries) :
           /\ i > 1 /\ i <= count + 1 /\ entries[i].special
           /\ NeedsPostedRead(entries[i]) /\ NeedsPostedRead(entries[i - 1])
    BY DEF LosesPlaceOnlyAtMatch
  <1>2. i <= count' + 1
    <2>1. i \in Nat /\ \A j, c, d \in Nat : j <= c + 1 /\ c <= d => j <= d + 1
      OBVIOUS
    <2> QED BY <1>1, <2>1
  <1> QED BY <1>1, <1>2 DEF LosesPlaceOnlyAtMatch, NeedsPostedRead

LEMMA PipeKeeps == ASSUME IInv, Pipe PROVE IInv'
  <1>1. PICK a \in Acks, v \in {data, n, latched, 0} :
           /\ Word(entry, n, a, v)
           /\ data' = v /\ ack' = a
           /\ IF a = "OK" THEN AddWord(v) ELSE UNCHANGED respVars
           /\ NextOrBreak(a)
    BY DEF Pipe
  <1>2. /\ pc = "pipe" /\ UNCHANGED <<port, retries, matchRetries, entries, entry, verify, posted, looks>>
        /\ synced' = (synced /\ ~HasWord(entry))
    BY DEF Pipe, hostVars
  <1>3. /\ TypeOK /\ TargetTypes /\ count \in Nat /\ Len(entries) \in Nat /\ count < Len(entries)
        /\ n = count + 1 /\ n \in Nat /\ v \in Nat
        /\ posted /\ NeedsPostedRead(entry) /\ entry.rnw /\ ~entry.rdbuff /\ entry \in Requests
        /\ synced => entry = entries[n]
    BY <1>2 DEF IInv, TypeOK, TargetTypes, Loop, AtRequest, n, Entries, NeedsPostedRead
  <1>4. /\ latched' \in Nat /\ faulted' = faulted /\ tries' = 0
        /\ (log' = log \/ log' = Append(log, n)) /\ log' \in Seq(Nat)
        /\ a = "OK" /\ ~Deceived => v = latched /\ latched' = n
    BY <1>1, <1>3, ReadWord
  <1>5. /\ Trusted' => Trusted /\ ~Deceived /\ ~HasWord(entry)
        /\ Trusted => latched = count
        /\ synced => /\ count > 0
                     /\ NeedsPostedRead(entries[count]) /\ ~entries[count].special
    BY <1>2, <1>3, <1>4 DEF Trusted, Deceived, IInv, PostedIsLast
  <1>6. /\ words' \in Seq(Nat) /\ Len(words') <= Capacity /\ bufError' \in BOOLEAN
        /\ bufError => bufError'
        /\ a # "OK" => UNCHANGED <<words, bufError>>
    <2>1. CASE a = "OK"
      BY <1>1, <1>3, <2>1, AddWordAdds DEF TypeOK
    <2>2. CASE a # "OK"
      BY <1>1, <1>3, <2>2 DEF TypeOK, respVars
    <2> QED BY <2>1, <2>2
  <1>7. /\ a = "OK" => pc' = "fetch" /\ count' = n
        /\ a # "OK" => pc' = "done" /\ count' = count
        /\ count' \in Nat /\ count <= count'
    BY <1>1, <1>3 DEF NextOrBreak
  <1>8. TypeOK'
    <2>1. count' \in 0..Len(entries) /\ synced' \in BOOLEAN
      BY <1>2, <1>3, <1>7
    <2>2. /\ posted' \in BOOLEAN /\ verify' \in BOOLEAN /\ looks' \in Nat /\ tries' \in Nat
          /\ faulted' \in BOOLEAN /\ data' \in Nat /\ entry' \in Requests
      BY <1>1, <1>2, <1>3, <1>4 DEF TypeOK
    <2> QED BY <1>1, <1>2, <1>3, <1>4, <1>6, <1>7, <2>1, <2>2, TypesStay DEF hostVars
  <1>9. Loop'
    BY <1>1, <1>7 DEF Loop, AtRequest, Branches
  <1>10. PostedIsLast'
    <2>1. ASSUME synced', a = "OK" PROVE NeedsPostedRead(entries[n]) /\ ~entries[n].special
      BY <1>2, <1>3, <2>1 DEF HasWord
    <2>2. \A r : NeedsPostedRead(r)' <=> NeedsPostedRead(r)
      BY <1>2 DEF NeedsPostedRead
    <2>3. CASE a = "OK"
      BY <1>2, <1>3, <1>4, <1>5, <1>7, <2>1, <2>2, <2>3 DEF PostedIsLast
    <2>4. CASE a # "OK"
      BY <1>2, <1>5, <1>7, <2>2, <2>4 DEF PostedIsLast
    <2> QED BY <2>3, <2>4
  <1>11. LosesPlaceOnlyAtMatch'
    <2>1. CASE ~synced
      BY <1>2, <1>3, <1>7, <2>1, StillLost DEF IInv, TypeOK
    <2>2. CASE synced /\ HasWord(entry)
      <3>1. /\ n \in 1..Len(entries) /\ n > 1 /\ n <= count' + 1
            /\ entries[n].special /\ NeedsPostedRead(entries[n]) /\ NeedsPostedRead(entries[n - 1])
        <4>1. n \in 1..Len(entries) /\ n > 1 /\ n <= count' + 1 /\ n - 1 = count
          BY <1>3, <1>5, <1>7, <2>2
        <4> QED BY <1>3, <1>5, <2>2, <4>1 DEF HasWord, NeedsPostedRead
      <3> QED BY <1>2, <3>1 DEF LosesPlaceOnlyAtMatch, NeedsPostedRead
    <2>3. CASE synced /\ ~HasWord(entry)
      BY <1>2, <2>3 DEF LosesPlaceOnlyAtMatch
    <2> QED BY <2>1, <2>2, <2>3
  <1>12. (Fitting /\ Complete /\ WordsAreRight)'
    <2>1. CASE a = "OK"
      <3>1. Trusted' => /\ PlainRead(v) /\ 1 <= v /\ v <= count' /\ v = count
                        /\ PlainReads(v - 1) = PlainReads(Covered)
                        /\ PlainReads(Covered') = PlainReads(v)
        <4>1. Covered = count - 1 /\ Covered' = count
          BY <1>2, <1>3, <1>7, <2>1 DEF Covered
        <4>2. Trusted' => v = count /\ count > 0 /\ NeedsPostedRead(entries[count]) /\ ~entries[count].special
          BY <1>4, <1>5, <2>1 DEF Trusted
        <4>3. Trusted' => PlainRead(count)
          BY <4>2 DEF PlainRead, NeedsPostedRead
        <4> QED BY <1>3, <1>7, <2>1, <4>1, <4>2, <4>3
      <3> QED BY <1>1, <1>2, <1>3, <1>5, <1>7, <2>1, <3>1, OneWord DEF IInv
    <2>2. CASE a # "OK"
      <3>1. ~Claims'
        BY <1>1, <1>7, <2>2 DEF Claims
      <3> QED BY <1>2, <1>3, <1>5, <1>6, <1>7, <2>2, <3>1, NoWord DEF IInv
    <2> QED BY <2>1, <2>2
  <1>13. (LogBounded /\ EffectsInOrder)'
    <2>1. Taken = count /\ Taken' = n
      BY <1>2, <1>3, <1>7 DEF Taken, n
    <2> QED BY <1>2, <1>3, <1>4, <1>5, <1>6, <1>7, <2>1, LogGrows DEF IInv
  <1>14. Comparing' /\ LateFailureIsDue' /\ LateFailuresAreReported'
    BY <1>1, <1>2, <1>3, <1>7 DEF Comparing, LateFailureIsDue, LateFailuresAreReported
  <1> QED BY <1>8, <1>9, <1>10, <1>11, <1>12, <1>13, <1>14 DEF IInv


LEMMA DrainKeeps == ASSUME IInv, Drain PROVE IInv'
  <1>1. PICK a \in Acks, v \in {data, latched, 0} :
           /\ Word(Rdbuff, 0, a, v)
           /\ data' = v /\ ack' = a
           /\ IF a = "OK" THEN AddWord(v) /\ pc' = Branch(entry)
              ELSE UNCHANGED respVars /\ pc' = "done"
    BY DEF Drain
  <1>2. /\ pc = "drain" /\ posted' = FALSE
        /\ UNCHANGED <<port, retries, matchRetries, entries, entry, synced, verify, count, looks>>
    BY DEF Drain, hostVars, loopVars
  <1>3. /\ TypeOK /\ TargetTypes /\ count \in Nat /\ Len(entries) \in Nat /\ count < Len(entries)
        /\ n = count + 1 /\ n \in Nat /\ v \in Nat
        /\ posted /\ ~NeedsPostedRead(entry) /\ entry \in Entries
        /\ synced => entry = entries[n]
    BY <1>2 DEF IInv, TypeOK, TargetTypes, Loop, AtRequest, n
  <1>4. Rdbuff \in Requests /\ Rdbuff.rnw /\ Rdbuff.rdbuff
    BY DEF Rdbuff, Requests
  <1>5. /\ latched' \in Nat /\ faulted' = faulted /\ tries' = 0 /\ log' = log /\ log' \in Seq(Nat)
        /\ a = "OK" /\ ~Deceived => v = latched
    BY <1>1, <1>3, <1>4, ReadWord
  <1>6. /\ Trusted' <=> Trusted
        /\ Trusted => ~Deceived /\ latched = count /\ count > 0
                      /\ NeedsPostedRead(entries[count]) /\ ~entries[count].special
    BY <1>2, <1>3, <1>5 DEF Trusted, Deceived, IInv, PostedIsLast
  <1>7. /\ words' \in Seq(Nat) /\ Len(words') <= Capacity /\ bufError' \in BOOLEAN
        /\ bufError => bufError'
        /\ a # "OK" => UNCHANGED <<words, bufError>>
    <2>1. CASE a = "OK"
      BY <1>1, <1>3, <2>1, AddWordAdds DEF TypeOK
    <2>2. CASE a # "OK"
      BY <1>1, <1>3, <2>2 DEF TypeOK, respVars
    <2> QED BY <2>1, <2>2
  <1>8. /\ Branch(entry) \in Branches \cup {"match"}
        /\ Branch(entry) = "match" => entry.rnw /\ entry.special
    BY DEF Branch, Branches
  <1>9. TypeOK'
    <2>1. pc' \in Calls \cup {"done", "mask"}
      BY <1>1, <1>8 DEF Branches, Calls
    <2>2. /\ entry' \in Requests /\ synced' \in BOOLEAN /\ verify' \in BOOLEAN
          /\ looks' \in Nat /\ tries' \in Nat /\ count' \in 0..Len(entries)
          /\ faulted' \in BOOLEAN /\ data' \in Nat /\ log' \in Seq(Nat)
      BY <1>1, <1>2, <1>3, <1>5 DEF TypeOK
    <2> QED BY <1>1, <1>2, <1>3, <1>5, <1>7, <2>1, <2>2, TypesStay DEF hostVars
  <1>10. Loop'
    <2>1. (Branch(entry))' = Branch(entry) /\ n' = n
      BY <1>2 DEF Branch, NeedsPostedRead, n
    <2> QED BY <1>1, <1>2, <1>3, <1>8, <2>1 DEF Loop, AtRequest, Branches
  <1>11. PostedIsLast' /\ LosesPlaceOnlyAtMatch'
    BY <1>2, <1>3, StillLost DEF PostedIsLast, IInv, TypeOK
  <1>12. (Fitting /\ Complete /\ WordsAreRight)'
    <2>1. CASE a = "OK"
      <3>1. Covered = count - 1 /\ Covered' = count
        BY <1>2, <1>3 DEF Covered
      <3>2. Trusted => PlainRead(count)
        BY <1>6 DEF PlainRead, NeedsPostedRead
      <3>3. Trusted' => /\ PlainRead(v) /\ 1 <= v /\ v <= count'
                        /\ PlainReads(v - 1) = PlainReads(Covered)
                        /\ PlainReads(Covered') = PlainReads(v)
        BY <1>2, <1>3, <1>5, <1>6, <2>1, <3>1, <3>2
      <3> QED BY <1>1, <1>2, <1>3, <1>6, <2>1, <3>3, OneWord DEF IInv
    <2>2. CASE a # "OK"
      <3>1. ~Claims'
        BY <1>1, <2>2 DEF Claims
      <3> QED BY <1>2, <1>3, <1>6, <1>7, <2>2, <3>1, NoWord DEF IInv
    <2> QED BY <2>1, <2>2
  <1>13. (LogBounded /\ EffectsInOrder)'
    <2>1. Taken = count /\ Taken' \in {count, n}
      BY <1>2, <1>3 DEF Taken, n
    <2>2. Taken <= Taken'
      BY <1>3, <2>1
    <2> QED BY <1>2, <1>3, <1>5, <1>6, <1>7, <2>2, LogGrows DEF IInv
  <1>14. Comparing' /\ LateFailureIsDue' /\ LateFailuresAreReported'
    <2>1. (NeedsPostedRead(entry))' = NeedsPostedRead(entry)
      BY <1>2 DEF NeedsPostedRead
    <2> QED BY <1>1, <1>2, <1>3, <1>8, <2>1
            DEF Comparing, LateFailureIsDue, LateFailuresAreReported, Branches
  <1> QED BY <1>9, <1>10, <1>11, <1>12, <1>13, <1>14 DEF IInv


LEMMA MatchPostKeeps == ASSUME IInv, MatchPost PROVE IInv'
  <1>1. PICK a \in Acks, v \in {data, n, latched, 0} : Word(entry, n, a, v)
    BY DEF MatchPost
  <1>2. /\ pc = "match_post" /\ pc' = "match" /\ looks' = 0 /\ data' = data
        /\ UNCHANGED <<port, retries, matchRetries, entries, entry, synced, verify, posted, ack,
                       count, words, bufError>>
    BY DEF MatchPost, hostVars, loopVars, respVars
  <1>3. /\ TypeOK /\ TargetTypes /\ count \in Nat /\ Len(entries) \in Nat /\ count < Len(entries)
        /\ n = count + 1 /\ n \in Nat /\ v \in Nat
        /\ ~posted /\ Branch(entry) = "match_post" /\ entry \in Entries
        /\ synced => entry = entries[n]
    BY <1>2 DEF IInv, TypeOK, TargetTypes, Loop, AtRequest, Branches, n
  <1>4. /\ entry \in Requests /\ entry.rnw /\ entry.special /\ ~entry.rdbuff
        /\ NeedsPostedRead(entry)
    BY <1>3 DEF Branch, Entries
  <1>5. /\ latched' \in Nat /\ faulted' = faulted /\ tries' = 0
        /\ (log' = log \/ log' = Append(log, n)) /\ log' \in Seq(Nat)
        /\ ~Deceived => latched' = n \/ UNCHANGED <<latched, log>>
    BY <1>1, <1>3, <1>4, ReadWord
  <1>6. /\ Trusted' <=> Trusted
        /\ Trusted => ~Deceived
    BY <1>2, <1>5 DEF Trusted, Deceived
  <1>7. TypeOK'
    BY <1>2, <1>3, <1>5 DEF TypeOK, Calls
  <1>8. Loop'
    <2>1. n' = n
      BY <1>2 DEF n
    <2> QED BY <1>2, <1>3, <1>4, <2>1 DEF Loop, AtRequest, Branches
  <1>9. PostedIsLast' /\ LosesPlaceOnlyAtMatch'
    BY <1>2, <1>3, StillLost DEF PostedIsLast, IInv, TypeOK
  <1>10. (Fitting /\ Complete /\ WordsAreRight)'
    <2>1. Covered = count /\ Covered' = count
      BY <1>2, <1>3 DEF Covered
    <2> QED BY <1>2, <1>3, <1>6, <2>1, NoWord DEF IInv
  <1>11. (LogBounded /\ EffectsInOrder)'
    <2>1. Taken = count /\ Taken' = n /\ Taken <= Taken'
      BY <1>2, <1>3 DEF Taken, n
    <2> QED BY <1>2, <1>3, <1>5, <1>6, <2>1, LogGrows DEF IInv
  <1>12. Comparing'
    <2>1. \A k \in 1..Len(log) : log[k] # n
      BY <1>2, <1>3 DEF IInv, LogBounded, Taken, TargetTypes
    <2>2. n \notin Values(log)
      BY <2>1 DEF Values
    <2>3. n' = n
      BY <1>2 DEF n
    <2> QED BY <1>5, <1>6, <2>2, <2>3 DEF Comparing, Values
  <1>13. LateFailureIsDue' /\ LateFailuresAreReported'
    BY <1>2 DEF LateFailureIsDue, LateFailuresAreReported
  <1> QED BY <1>7, <1>8, <1>9, <1>10, <1>11, <1>12, <1>13 DEF IInv

LEMMA MatchKeeps == ASSUME IInv, Match PROVE IInv'
  <1>1. PICK a \in Acks, v \in {data, n, latched, 0}, equal \in BOOLEAN :
           /\ Word(entry, n, a, v)
           /\ data' = v
           /\ IF a = "OK" /\ ~equal /\ looks + 1 < matchRetries
              THEN /\ looks' = looks + 1 /\ ack' = a
                   /\ UNCHANGED <<pc, count>>
              ELSE /\ looks' = 0
                   /\ ack' = IF equal THEN a ELSE "MISMATCH"
                   /\ NextOrBreak(ack')
    BY DEF Match
  <1>2. /\ pc = "match"
        /\ UNCHANGED <<port, retries, matchRetries, entries, entry, synced, verify, posted,
                       words, bufError>>
    BY DEF Match, hostVars, loopVars, respVars
  <1>3. /\ TypeOK /\ TargetTypes /\ count \in Nat /\ Len(entries) \in Nat /\ count < Len(entries)
        /\ n = count + 1 /\ n \in Nat /\ v \in Nat
        /\ ~posted /\ entry.rnw /\ entry.special /\ entry \in Entries
        /\ synced => entry = entries[n]
    BY <1>2 DEF IInv, TypeOK, TargetTypes, Loop, AtRequest, n
  <1>4. entry \in Requests /\ ~entry.rdbuff
    BY <1>3 DEF Entries
  <1>5. /\ latched' \in Nat /\ faulted' = faulted /\ tries' = 0
        /\ (log' = log \/ log' = Append(log, n)) /\ log' \in Seq(Nat)
        /\ a = "OK" /\ ~Deceived /\ NeedsPostedRead(entry) => latched' = n
        /\ a = "OK" /\ port = "swd" /\ entry.ap => ~faulted
    BY <1>1, <1>3, <1>4, ReadWord
  <1>6. /\ Trusted' <=> Trusted
        /\ Trusted => ~Deceived
    BY <1>2, <1>5 DEF Trusted, Deceived
  <1>7. \/ pc' = "match" /\ count' = count /\ a = "OK" /\ looks' = looks + 1 /\ ack' = a
        \/ pc' = "fetch" /\ count' = n /\ a = "OK" /\ looks' = 0 /\ ack' = a
        \/ pc' = "done" /\ count' = count /\ ack' # "OK" /\ looks' = 0 /\ ack' \in {a, "MISMATCH"}
    BY <1>1, <1>2 DEF NextOrBreak
  <1>8. TypeOK'
    <2>1. count' \in 0..Len(entries)
      BY <1>3, <1>7
    <2>2. looks' \in Nat /\ pc' \in Calls \cup {"done", "fetch"} /\ ack' \in Acks \cup {"MISMATCH"}
      BY <1>3, <1>7 DEF TypeOK, Calls
    <2>3. /\ synced' \in BOOLEAN /\ posted' \in BOOLEAN /\ verify' \in BOOLEAN /\ faulted' \in BOOLEAN
          /\ data' \in Nat /\ tries' \in Nat
          /\ words' \in Seq(Nat) /\ Len(words') <= Capacity /\ bufError' \in BOOLEAN
      BY <1>1, <1>2, <1>3, <1>5 DEF TypeOK
    <2> QED BY <1>2, <1>3, <1>4, <1>5, <2>1, <2>2, <2>3, TypesStay DEF hostVars
  <1>9. Loop'
    <2>1. count' = count => n' = n
      BY DEF n
    <2> QED BY <1>2, <1>3, <1>7, <2>1 DEF Loop, AtRequest, Branches
  <1>10. PostedIsLast' /\ LosesPlaceOnlyAtMatch'
    BY <1>2, <1>3, <1>7, StillLost DEF PostedIsLast, IInv, TypeOK
  <1>11. (Fitting /\ Complete /\ WordsAreRight)'
    <2>1. Covered = count /\ Covered' = count'
      BY <1>2, <1>3 DEF Covered
    <2>2. Trusted => PlainReads(n) = PlainReads(count)
      BY <1>3, PlainReadsGrow DEF PlainRead, Trusted
    <2> QED BY <1>2, <1>3, <1>6, <1>7, <2>1, <2>2, NoWord DEF IInv, Claims
  <1>12. (LogBounded /\ EffectsInOrder)'
    <2>1. Taken = n /\ Taken' = n
      BY <1>2, <1>7 DEF Taken, n
    <2> QED BY <1>2, <1>3, <1>5, <1>6, <1>7, <2>1, LogGrows DEF IInv
  <1>13. Comparing'
    <2>1. /\ NeedsPostedRead(entry)' <=> NeedsPostedRead(entry)
          /\ pc' = "match" => n' = n
      BY <1>2, <1>7 DEF NeedsPostedRead, n
    <2> QED BY <1>5, <1>6, <1>7, <2>1 DEF Comparing
  <1>14. LateFailureIsDue' /\ LateFailuresAreReported'
    BY <1>2, <1>3, <1>5, <1>7 DEF LateFailureIsDue, LateFailuresAreReported, CheckedAtTheEnd
  <1> QED BY <1>8, <1>9, <1>10, <1>11, <1>12, <1>13, <1>14 DEF IInv

LEMMA MatchNoneKeeps == ASSUME IInv, MatchNone PROVE IInv'
  <1>1. /\ pc = "match" /\ matchRetries = 0
        /\ UNCHANGED <<port, retries, matchRetries, entries, entry, synced, verify, posted, looks,
                       words, bufError, tries, data, latched, faulted, log>>
        /\ \/ pc' = "fetch" /\ count' = n /\ ack' = ack
           \/ pc' = "done" /\ count' = count /\ ack' # "OK" /\ ack' \in {ack, "MISMATCH"}
    BY DEF MatchNone, NextOrBreak, hostVars, loopVars, respVars, wordVars
  <1>2. /\ TypeOK /\ TargetTypes /\ count \in Nat /\ Len(entries) \in Nat /\ count < Len(entries)
        /\ n = count + 1 /\ n \in Nat
        /\ ~posted /\ entry.rnw /\ entry.special
        /\ synced => entry = entries[n]
    BY <1>1 DEF IInv, TypeOK, TargetTypes, Loop, AtRequest, n
  <1>3. (Trusted' <=> Trusted) /\ count' \in Nat /\ count <= count'
    BY <1>1, <1>2 DEF Trusted
  <1>4. TypeOK'
    <2>1. count' \in 0..Len(entries)
      BY <1>1, <1>2
    <2> QED BY <1>1, <1>2, <2>1 DEF TypeOK
  <1>5. Loop'
    BY <1>1 DEF Loop, AtRequest, Branches
  <1>6. PostedIsLast' /\ LosesPlaceOnlyAtMatch'
    BY <1>1, <1>2, <1>3, StillLost DEF PostedIsLast, IInv, TypeOK
  <1>7. (Fitting /\ Complete /\ WordsAreRight)'
    <2>1. Covered = count /\ Covered' = count'
      BY <1>1, <1>2 DEF Covered
    <2>2. Trusted => PlainReads(n) = PlainReads(count)
      BY <1>2, PlainReadsGrow DEF PlainRead, Trusted
    <2> QED BY <1>1, <1>2, <1>3, <2>1, <2>2, NoWord DEF IInv, Claims
  <1>8. (LogBounded /\ EffectsInOrder)'
    <2>1. Taken = n /\ Taken' = n
      BY <1>1 DEF Taken, n
    <2> QED BY <1>1, <1>2, <1>3, <2>1, LogGrows DEF IInv
  <1>9. Comparing' /\ LateFailureIsDue' /\ LateFailuresAreReported'
    BY <1>1, <1>2 DEF Comparing, LateFailureIsDue, LateFailuresAreReported, CheckedAtTheEnd
  <1> QED BY <1>4, <1>5, <1>6, <1>7, <1>8, <1>9 DEF IInv

LEMMA MaskKeeps == ASSUME IInv, Mask PROVE IInv'
  <1>1. /\ pc = "mask" /\ pc' = "fetch" /\ count' = n /\ ack' = "OK" /\ data' = 0
        /\ UNCHANGED <<port, retries, matchRetries, entries, entry, synced, verify, posted, looks,
                       words, bufError, tries, latched, faulted, log>>
    BY DEF Mask, NextOrBreak, hostVars, loopVars, respVars, targetVars
  <1>2. /\ TypeOK /\ TargetTypes /\ count \in Nat /\ Len(entries) \in Nat /\ count < Len(entries)
        /\ n = count + 1 /\ n \in Nat
        /\ ~posted /\ Branch(entry) = "mask"
        /\ synced => entry = entries[n]
    BY <1>1 DEF IInv, TypeOK, TargetTypes, Loop, AtRequest, Branches, n
  <1>3. entry \in Requests => ~entry.rnw /\ entry.special
    BY <1>2 DEF Branch, Requests
  <1>4. ~entry.rnw /\ entry.special
    BY <1>2, <1>3 DEF TypeOK
  <1>5. (Trusted' <=> Trusted) /\ count' \in Nat /\ count <= count'
    BY <1>1, <1>2 DEF Trusted
  <1>6. TypeOK'
    <2>1. count' \in 0..Len(entries)
      BY <1>1, <1>2
    <2> QED BY <1>1, <1>2, <2>1 DEF TypeOK, Acks
  <1>7. Loop'
    BY <1>1 DEF Loop, AtRequest, Branches
  <1>8. PostedIsLast' /\ LosesPlaceOnlyAtMatch'
    BY <1>1, <1>2, <1>5, StillLost DEF PostedIsLast, IInv, TypeOK
  <1>9. (Fitting /\ Complete /\ WordsAreRight)'
    <2>1. Covered = count /\ Covered' = count'
      BY <1>1, <1>2 DEF Covered
    <2>2. Trusted => PlainReads(n) = PlainReads(count)
      BY <1>2, <1>4, PlainReadsGrow DEF PlainRead, Trusted
    <2> QED BY <1>1, <1>2, <1>5, <2>1, <2>2, NoWord DEF IInv, Claims
  <1>10. (LogBounded /\ EffectsInOrder)'
    <2>1. Taken = count /\ Taken' = n
      BY <1>1 DEF Taken, n
    <2> QED BY <1>1, <1>2, <1>5, <2>1, LogGrows DEF IInv
  <1>11. Comparing' /\ LateFailureIsDue' /\ LateFailuresAreReported'
    BY <1>1, <1>2, <1>4 DEF Comparing, LateFailureIsDue, LateFailuresAreReported, CheckedAtTheEnd
  <1> QED BY <1>6, <1>7, <1>8, <1>9, <1>10, <1>11 DEF IInv


LEMMA PostKeeps == ASSUME IInv, Post PROVE IInv'
  <1>1. PICK a \in Acks, v \in {data, n, latched, 0} :
           /\ Word(entry, n, a, v)
           /\ ack' = a /\ posted' = (a = "OK")
           /\ NextOrBreak(a)
    BY DEF Post
  <1>2. /\ pc = "post" /\ data' = data
        /\ UNCHANGED <<port, retries, matchRetries, entries, entry, synced, verify, looks,
                       words, bufError>>
    BY DEF Post, hostVars, loopVars, respVars
  <1>3. /\ TypeOK /\ TargetTypes /\ count \in Nat /\ Len(entries) \in Nat /\ count < Len(entries)
        /\ n = count + 1 /\ n \in Nat /\ v \in Nat
        /\ ~posted /\ Branch(entry) = "post" /\ entry \in Entries
        /\ synced => entry = entries[n]
    BY <1>2 DEF IInv, TypeOK, TargetTypes, Loop, AtRequest, Branches, n
  <1>4. /\ entry \in Requests /\ entry.rnw /\ ~entry.special /\ ~entry.rdbuff
        /\ NeedsPostedRead(entry)
    BY <1>3 DEF Branch, Entries
  <1>5. /\ latched' \in Nat /\ faulted' = faulted /\ tries' = 0
        /\ (log' = log \/ log' = Append(log, n)) /\ log' \in Seq(Nat)
        /\ a = "OK" /\ ~Deceived => latched' = n
    BY <1>1, <1>3, <1>4, ReadWord
  <1>6. /\ Trusted' <=> Trusted
        /\ Trusted => ~Deceived
    BY <1>2, <1>5 DEF Trusted, Deceived
  <1>7. /\ \/ pc' = "fetch" /\ count' = n /\ a = "OK" /\ posted'
           \/ pc' = "done" /\ count' = count /\ a # "OK" /\ ~posted'
        /\ count' \in Nat /\ count <= count' /\ posted' \in BOOLEAN
    <2>1. posted' \in BOOLEAN /\ (posted' <=> a = "OK")
      BY <1>1, Zenon
    <2>2. /\ \/ pc' = "fetch" /\ count' = n /\ a = "OK"
             \/ pc' = "done" /\ count' = count /\ a # "OK"
          /\ count' \in Nat /\ count <= count'
      BY <1>1, <1>3 DEF NextOrBreak
    <2> QED BY <2>1, <2>2
  <1>8. TypeOK'
    <2>1. count' \in 0..Len(entries)
      BY <1>3, <1>7
    <2>2. /\ synced' \in BOOLEAN /\ posted' \in BOOLEAN /\ verify' \in BOOLEAN /\ faulted' \in BOOLEAN
          /\ looks' \in Nat /\ tries' \in Nat
          /\ words' \in Seq(Nat) /\ Len(words') <= Capacity /\ bufError' \in BOOLEAN
      BY <1>2, <1>3, <1>5, <1>7 DEF TypeOK
    <2> QED BY <1>1, <1>2, <1>3, <1>4, <1>5, <1>7, <2>1, <2>2, TypesStay DEF hostVars, TypeOK
  <1>9. Loop'
    BY <1>1, <1>7 DEF Loop, AtRequest, Branches
  <1>10. PostedIsLast'
    <2>1. \A r : NeedsPostedRead(r)' <=> NeedsPostedRead(r)
      BY <1>2 DEF NeedsPostedRead
    <2> QED BY <1>2, <1>3, <1>4, <1>5, <1>6, <1>7, <2>1 DEF PostedIsLast
  <1>11. LosesPlaceOnlyAtMatch'
    BY <1>2, <1>3, <1>7, StillLost DEF IInv, TypeOK
  <1>12. (Fitting /\ Complete /\ WordsAreRight)'
    <2>1. Covered = count
      BY <1>2, <1>3 DEF Covered
    <2>2. a = "OK" => Covered' = n - 1 /\ n - 1 = count
      BY <1>3, <1>7 DEF Covered
    <2> QED BY <1>1, <1>2, <1>3, <1>6, <1>7, <2>1, <2>2, NoWord DEF IInv, Claims
  <1>13. (LogBounded /\ EffectsInOrder)'
    <2>1. Taken = count /\ Taken' = n
      BY <1>2, <1>7 DEF Taken, n
    <2> QED BY <1>2, <1>3, <1>5, <1>6, <1>7, <2>1, LogGrows DEF IInv
  <1>14. Comparing' /\ LateFailureIsDue' /\ LateFailuresAreReported'
    BY <1>1, <1>7 DEF Comparing, LateFailureIsDue, LateFailuresAreReported
  <1> QED BY <1>8, <1>9, <1>10, <1>11, <1>12, <1>13, <1>14 DEF IInv

LEMMA ReadNowKeeps == ASSUME IInv, ReadNow PROVE IInv'
  <1>1. PICK a \in Acks, v \in {data, n, latched, 0} :
           /\ Word(entry, n, a, v)
           /\ data' = v /\ ack' = a
           /\ IF a = "OK" THEN AddWord(v) ELSE UNCHANGED respVars
           /\ NextOrBreak(a)
    BY DEF ReadNow
  <1>2. /\ pc = "read"
        /\ UNCHANGED <<port, retries, matchRetries, entries, entry, synced, verify, posted, looks>>
    BY DEF ReadNow, hostVars, loopVars
  <1>3. /\ TypeOK /\ TargetTypes /\ count \in Nat /\ Len(entries) \in Nat /\ count < Len(entries)
        /\ n = count + 1 /\ n \in Nat /\ v \in Nat
        /\ ~posted /\ Branch(entry) = "read" /\ entry \in Entries
        /\ synced => entry = entries[n]
    BY <1>2 DEF IInv, TypeOK, TargetTypes, Loop, AtRequest, Branches, n
  <1>4. /\ entry \in Requests /\ entry.rnw /\ ~entry.special /\ ~entry.rdbuff
        /\ ~NeedsPostedRead(entry)
    BY <1>3 DEF Branch, Entries
  <1>5. /\ latched' \in Nat /\ faulted' = faulted /\ tries' = 0
        /\ (log' = log \/ log' = Append(log, n)) /\ log' \in Seq(Nat)
        /\ a = "OK" => v = n
    BY <1>1, <1>3, <1>4, ReadWord
  <1>6. Trusted' <=> Trusted
    BY <1>2, <1>5 DEF Trusted
  <1>7. /\ words' \in Seq(Nat) /\ Len(words') <= Capacity /\ bufError' \in BOOLEAN
        /\ bufError => bufError'
        /\ a # "OK" => UNCHANGED <<words, bufError>>
    <2>1. CASE a = "OK"
      BY <1>1, <1>3, <2>1, AddWordAdds DEF TypeOK
    <2>2. CASE a # "OK"
      BY <1>1, <1>3, <2>2 DEF TypeOK, respVars
    <2> QED BY <2>1, <2>2
  <1>8. /\ \/ pc' = "fetch" /\ count' = n /\ a = "OK"
           \/ pc' = "done" /\ count' = count /\ a # "OK"
        /\ count' \in Nat /\ count <= count'
    BY <1>1, <1>3 DEF NextOrBreak
  <1>9. TypeOK'
    <2>1. count' \in 0..Len(entries)
      BY <1>3, <1>8
    <2>2. /\ synced' \in BOOLEAN /\ posted' \in BOOLEAN /\ verify' \in BOOLEAN /\ faulted' \in BOOLEAN
          /\ looks' \in Nat /\ tries' \in Nat /\ data' \in Nat
      BY <1>1, <1>2, <1>3, <1>5 DEF TypeOK
    <2> QED BY <1>1, <1>2, <1>3, <1>4, <1>5, <1>7, <1>8, <2>1, <2>2, TypesStay DEF hostVars
  <1>10. Loop'
    BY <1>1, <1>8 DEF Loop, AtRequest, Branches
  <1>11. PostedIsLast' /\ LosesPlaceOnlyAtMatch'
    BY <1>2, <1>3, <1>8, StillLost DEF PostedIsLast, IInv, TypeOK
  <1>12. (Fitting /\ Complete /\ WordsAreRight)'
    <2>1. Covered = count /\ Covered' = count'
      BY <1>2, <1>3 DEF Covered
    <2>2. CASE a = "OK"
      <3>1. Trusted => PlainRead(n)
        BY <1>3, <1>4 DEF Trusted, PlainRead
      <3>2. v - 1 = count /\ v = count'
        BY <1>3, <1>5, <1>8, <2>2
      <3> QED BY <1>1, <1>2, <1>3, <1>5, <1>6, <1>8, <2>1, <2>2, <3>1, <3>2, OneWord DEF IInv
    <2>3. CASE a # "OK"
      <3>1. ~Claims'
        BY <1>1, <1>8, <2>3 DEF Claims
      <3> QED BY <1>2, <1>3, <1>6, <1>7, <1>8, <2>3, <3>1, NoWord DEF IInv
    <2> QED BY <2>2, <2>3
  <1>13. (LogBounded /\ EffectsInOrder)'
    <2>1. Taken = count /\ Taken' = n
      BY <1>2, <1>8 DEF Taken, n
    <2> QED BY <1>2, <1>3, <1>5, <1>6, <1>7, <1>8, <2>1, LogGrows DEF IInv
  <1>14. Comparing' /\ LateFailureIsDue' /\ LateFailuresAreReported'
    BY <1>1, <1>2, <1>3, <1>4, <1>8
       DEF Comparing, LateFailureIsDue, LateFailuresAreReported, CheckedAtTheEnd, NeedsPostedRead
  <1> QED BY <1>9, <1>10, <1>11, <1>12, <1>13, <1>14 DEF IInv

LEMMA WriteNowKeeps == ASSUME IInv, WriteNow PROVE IInv'
  <1>1. PICK a \in Acks :
           /\ Word(entry, IF bufError THEN 0 ELSE n, a, data)
           /\ data' = 0 /\ ack' = a
           /\ verify' = (a = "OK")
           /\ NextOrBreak(a)
    BY DEF WriteNow
  <1>2. /\ pc = "write"
        /\ UNCHANGED <<port, retries, matchRetries, entries, entry, synced, posted, looks,
                       words, bufError>>
    BY DEF WriteNow, hostVars, respVars
  <1>3. /\ TypeOK /\ TargetTypes /\ count \in Nat /\ Len(entries) \in Nat /\ count < Len(entries)
        /\ n = count + 1 /\ n \in Nat
        /\ ~posted /\ Branch(entry) = "write" /\ entry \in Entries
        /\ synced => entry = entries[n]
    BY <1>2 DEF IInv, TypeOK, TargetTypes, Loop, AtRequest, Branches, n
  <1>4. /\ entry \in Requests /\ ~entry.rnw /\ ~entry.rdbuff
    BY <1>3 DEF Branch, Entries, Requests
  <1>5. PICK m \in Nat : Word(entry, m, a, data) /\ m <= n /\ (~bufError => m = n)
    BY <1>1, <1>3
  <1>6. /\ latched' \in Nat /\ faulted' \in BOOLEAN /\ (faulted => faulted') /\ tries' = 0
        /\ (log' = log \/ log' = Append(log, m)) /\ log' \in Seq(Nat)
    BY <1>3, <1>4, <1>5, WriteWord
  <1>7. Trusted' => Trusted
    BY <1>2, <1>6 DEF Trusted
  <1>8. /\ \/ pc' = "fetch" /\ count' = n /\ verify'
           \/ pc' = "done" /\ count' = count /\ a # "OK"
        /\ count' \in Nat /\ count <= count' /\ verify' \in BOOLEAN
    <2>1. verify' \in BOOLEAN /\ (verify' <=> a = "OK")
      BY <1>1, Zenon
    <2>2. /\ \/ pc' = "fetch" /\ count' = n /\ a = "OK"
             \/ pc' = "done" /\ count' = count /\ a # "OK"
          /\ count' \in Nat /\ count <= count'
      BY <1>1, <1>3 DEF NextOrBreak
    <2> QED BY <2>1, <2>2
  <1>9. TypeOK'
    <2>1. count' \in 0..Len(entries)
      BY <1>3, <1>8
    <2>2. /\ synced' \in BOOLEAN /\ posted' \in BOOLEAN /\ looks' \in Nat /\ tries' \in Nat /\ data' \in Nat
          /\ words' \in Seq(Nat) /\ Len(words') <= Capacity /\ bufError' \in BOOLEAN
      BY <1>1, <1>2, <1>3, <1>6 DEF TypeOK
    <2> QED BY <1>1, <1>2, <1>3, <1>4, <1>6, <1>8, <2>1, <2>2, TypesStay DEF hostVars
  <1>10. Loop'
    BY <1>1, <1>8 DEF Loop, AtRequest, Branches
  <1>11. PostedIsLast' /\ LosesPlaceOnlyAtMatch'
    BY <1>2, <1>3, <1>8, StillLost DEF PostedIsLast, IInv, TypeOK
  <1>12. (Fitting /\ Complete /\ WordsAreRight)'
    <2>1. Covered = count /\ Covered' = count'
      BY <1>2, <1>3 DEF Covered
    <2>2. Trusted => PlainReads(n) = PlainReads(count)
      BY <1>3, <1>4, PlainReadsGrow DEF PlainRead, Trusted
    <2>3. Claims' => Trusted /\ count' = n
      BY <1>1, <1>7, <1>8 DEF Claims
    <2> QED BY <1>2, <1>3, <1>7, <1>8, <2>1, <2>2, <2>3, NoWord DEF IInv
  <1>13. (LogBounded /\ EffectsInOrder)'
    <2>1. Taken = count /\ Taken' = n
      BY <1>2, <1>8 DEF Taken, n
    <2> QED BY <1>2, <1>3, <1>5, <1>6, <1>7, <1>8, <2>1, LogGrows DEF IInv
  <1>14. Comparing' /\ LateFailureIsDue' /\ LateFailuresAreReported'
    BY <1>1, <1>8 DEF Comparing, LateFailureIsDue, LateFailuresAreReported
  <1> QED BY <1>9, <1>10, <1>11, <1>12, <1>13, <1>14 DEF IInv


LEMMA LastKeeps == ASSUME IInv, Last PROVE IInv'
  <1>1. PICK a \in Acks, v \in {data, latched, 0} :
           /\ Word(Rdbuff, 0, a, v)
           /\ data' = v /\ ack' = a
           /\ AddWord(v)
    BY DEF Last
  <1>2. /\ pc = "last" /\ pc' = "done"
        /\ UNCHANGED <<port, retries, matchRetries, entries, entry, synced, verify, posted, count, looks>>
    BY DEF Last, hostVars, loopVars
  <1>3. /\ TypeOK /\ TargetTypes /\ count \in Nat /\ n \in Nat /\ v \in Nat
        /\ posted /\ (count = Len(entries) \/ bufError)
    BY <1>2 DEF IInv, TypeOK, TargetTypes, Loop, n
  <1>4. Rdbuff \in Requests /\ Rdbuff.rnw /\ Rdbuff.rdbuff
    BY DEF Rdbuff, Requests
  <1>5. /\ latched' \in Nat /\ faulted' = faulted /\ tries' = 0 /\ log' = log /\ log' \in Seq(Nat)
        /\ a = "OK" /\ ~Deceived => v = latched
        /\ a = "OK" /\ port = "swd" => ~faulted
    BY <1>1, <1>3, <1>4, ReadWord
  <1>6. /\ Trusted' <=> Trusted
        /\ Trusted => ~Deceived /\ latched = count /\ count > 0
                      /\ NeedsPostedRead(entries[count]) /\ ~entries[count].special
    BY <1>2, <1>3, <1>5 DEF Trusted, Deceived, IInv, PostedIsLast
  <1>7. /\ words' \in Seq(Nat) /\ Len(words') <= Capacity /\ bufError' \in BOOLEAN
        /\ \/ bufError' /\ words' = words
           \/ ~bufError /\ ~bufError' /\ words' = Append(words, v)
    BY <1>1, <1>3, AddWordAdds DEF TypeOK
  <1>8. TypeOK'
    <2>1. /\ synced' \in BOOLEAN /\ verify' \in BOOLEAN /\ posted' \in BOOLEAN /\ entry' \in Requests
          /\ looks' \in Nat /\ tries' \in Nat /\ count' \in 0..Len(entries)
          /\ faulted' \in BOOLEAN /\ data' \in Nat
      BY <1>1, <1>2, <1>3, <1>5 DEF TypeOK
    <2> QED BY <1>1, <1>2, <1>3, <1>5, <1>7, <2>1, TypesStay DEF hostVars
  <1>9. Loop'
    BY <1>2, <1>3, <1>7 DEF Loop, AtRequest, Branches
  <1>10. PostedIsLast' /\ LosesPlaceOnlyAtMatch'
    <2>1. PostedIsLast'
      BY <1>2 DEF IInv, PostedIsLast, NeedsPostedRead
    <2> QED BY <1>2, <1>3, <2>1, StillLost DEF IInv, TypeOK
  <1>11. (Fitting /\ Complete /\ WordsAreRight)'
    <2>1. CASE a = "OK"
      <3>1. Covered = count - 1 /\ Covered' = count
        BY <1>2, <1>3 DEF Covered
      <3>2. Trusted => PlainRead(count)
        BY <1>6 DEF PlainRead, NeedsPostedRead
      <3>3. Trusted' => /\ PlainRead(v) /\ 1 <= v /\ v <= count'
                        /\ PlainReads(v - 1) = PlainReads(Covered)
                        /\ PlainReads(Covered') = PlainReads(v)
        BY <1>2, <1>3, <1>5, <1>6, <2>1, <3>1, <3>2
      <3> QED BY <1>1, <1>2, <1>3, <1>6, <2>1, <3>3, OneWord DEF IInv
    <2>2. CASE a # "OK"
      <3>1. ~Claims'
        BY <1>1, <1>2, <2>2 DEF Claims
      <3>2. ASSUME Trusted', NEW k \in 1..Len(words'), k # Len(words') PROVE WordFits(k)'
        <4>1. /\ k \in 1..Len(words) /\ words'[k] = words[k]
              /\ k > 1 => words'[k - 1] = words[k - 1]
          <5>1. CASE words' = words
            BY <5>1
          <5>2. CASE words' = Append(words, v)
            BY <1>3, <3>2, <5>2 DEF TypeOK
          <5> QED BY <1>7, <5>1, <5>2
        <4>2. WordFits(k)
          BY <1>2, <1>6, <3>2, <4>1 DEF IInv, Fitting, Claims
        <4>3. count' \in Nat /\ count <= count'
          BY <1>2, <1>3
        <4> QED BY <1>2, <1>3, <4>1, <4>2, <4>3, FitsOn
      <3>3. ack' # "OK"
        BY <1>1, <2>2
      <3>4. WordsAreRight'
        BY <1>2, <3>2, <3>3 DEF WordsAreRight, WordFits
      <3> QED BY <3>1, <3>4 DEF Fitting, Complete
    <2> QED BY <2>1, <2>2
  <1>12. (LogBounded /\ EffectsInOrder)'
    <2>1. Taken = count /\ Taken' = n /\ Taken <= Taken' /\ n = count + 1
      BY <1>2, <1>3 DEF Taken, n
    <2>2. bufError => bufError'
      BY <1>7
    <2> QED BY <1>2, <1>3, <1>5, <1>6, <2>1, <2>2, LogGrows DEF IInv
  <1>13. Comparing' /\ LateFailureIsDue' /\ LateFailuresAreReported'
    BY <1>1, <1>2, <1>5 DEF Comparing, LateFailureIsDue, LateFailuresAreReported
  <1> QED BY <1>8, <1>9, <1>10, <1>11, <1>12, <1>13 DEF IInv

LEMMA VerifyKeeps == ASSUME IInv, Verify PROVE IInv'
  <1>1. PICK a \in Acks, v \in {data, latched, 0} : Word(Rdbuff, 0, a, v) /\ ack' = a
    BY DEF Verify
  <1>2. /\ pc = "verify" /\ pc' = "done" /\ data' = data
        /\ UNCHANGED <<port, retries, matchRetries, entries, entry, synced, verify, posted, count, looks,
                       words, bufError>>
    BY DEF Verify, hostVars, loopVars, respVars
  <1>3. /\ TypeOK /\ TargetTypes /\ count \in Nat /\ n \in Nat /\ v \in Nat
        /\ ~posted /\ (count = Len(entries) \/ bufError)
    BY <1>2 DEF IInv, TypeOK, TargetTypes, Loop, n
  <1>4. Rdbuff \in Requests /\ Rdbuff.rnw /\ Rdbuff.rdbuff
    BY DEF Rdbuff, Requests
  <1>5. /\ latched' \in Nat /\ faulted' = faulted /\ tries' = 0 /\ log' = log /\ log' \in Seq(Nat)
        /\ a = "OK" /\ port = "swd" => ~faulted
    BY <1>1, <1>3, <1>4, ReadWord
  <1>6. Trusted' <=> Trusted
    BY <1>2, <1>5 DEF Trusted
  <1>7. TypeOK'
    BY <1>1, <1>2, <1>3, <1>5, TypesStay DEF hostVars, TypeOK
  <1>8. Loop'
    BY <1>2, <1>3 DEF Loop, AtRequest, Branches
  <1>9. PostedIsLast' /\ LosesPlaceOnlyAtMatch'
    BY <1>2, <1>3, StillLost DEF PostedIsLast, IInv, TypeOK
  <1>10. (Fitting /\ Complete /\ WordsAreRight)'
    <2>1. Covered = count /\ Covered' = count
      BY <1>2, <1>3 DEF Covered
    <2> QED BY <1>2, <1>3, <1>6, <2>1, NoWord DEF IInv
  <1>11. (LogBounded /\ EffectsInOrder)'
    <2>1. Taken = count /\ Taken' = n /\ Taken <= Taken' /\ n = count + 1
      BY <1>2, <1>3 DEF Taken, n
    <2> QED BY <1>2, <1>3, <1>5, <1>6, <2>1, LogGrows DEF IInv
  <1>12. Comparing' /\ LateFailureIsDue' /\ LateFailuresAreReported'
    BY <1>1, <1>2, <1>5 DEF Comparing, LateFailureIsDue, LateFailuresAreReported
  <1> QED BY <1>7, <1>8, <1>9, <1>10, <1>11, <1>12 DEF IInv

LEMMA NextKeeps == ASSUME IInv, [Next]_vars PROVE IInv'
  <1>1. CASE Probe
    BY <1>1, FetchKeeps, LeaveKeeps, RetryKeeps, PipeKeeps, DrainKeeps, MatchPostKeeps, MatchKeeps,
       MatchNoneKeeps, MaskKeeps, PostKeeps, ReadNowKeeps, WriteNowKeeps, LastKeeps, VerifyKeeps DEF Probe
  <1>2. CASE UNCHANGED vars
    <2>1. UNCHANGED <<pc, port, retries, matchRetries, entries, entry, synced, verify, posted, ack,
                      count, looks, words, bufError, tries, data, latched, faulted, log>>
      BY <1>2 DEF vars, hostVars, loopVars, respVars, wordVars
    <2>2. TypeOK'
      BY <2>1 DEF IInv, TypeOK
    <2>3. Parts'
      BY <2>1, TriesDoNotMatter
    <2> QED BY <2>2, <2>3 DEF IInv, Parts
  <1> QED BY <1>1, <1>2, StartKeeps, RespondKeeps DEF Next

\* The inductive invariant holds in every state, whatever the bounds.
THEOREM Invariance == Spec => []IInv
  <1>1. IInv /\ [Next]_vars => IInv'
    BY NextKeeps
  <1> QED BY InitKeeps, <1>1, PTL DEF Spec

-----------------------------------------------------------------------------
(* What holds. *)

\* Every variable keeps its type, whatever the packet and whatever the target answers
\* (dap.c:905-1019).
THEOREM TypeCorrect == Spec => []TypeOK
  <1>1. IInv => TypeOK
    BY DEF IInv
  <1> QED BY <1>1, Invariance, PTL

\* The k-th word of a response is what the k-th read of the packet read, although the
\* words run one transfer behind the requests (dap.c:939, dap.c:992, dap.c:1010-1014).
THEOREM WordsAreRightHolds == Spec => []WordsAreRight
  <1>1. IInv => WordsAreRight
    BY DEF IInv
  <1> QED BY <1>1, Invariance, PTL

\* An OK that is not cut short by a full buffer answers every request and has a word for
\* every read (dap.c:905-1019).
THEOREM OkMeansCompleteHolds == Spec => []OkMeansComplete
  <1>1. IInv => OkMeansComplete
    <2> SUFFICES ASSUME IInv, pc = "done", ack = "OK", Trusted, ~bufError
                 PROVE  count = Len(entries) /\ Values(words) = PlainReads(count)
      BY DEF OkMeansComplete
    <2>1. count = Len(entries)
      BY DEF IInv, Loop
    <2>2. Values(words) = PlainReads(LastRead) /\ PlainReads(LastRead) = PlainReads(Covered)
      BY DEF IInv, Complete, Claims
    <2>3. Covered = count
      BY DEF Covered
    <2> QED BY <2>1, <2>2, <2>3
  <1> QED BY <1>1, Invariance, PTL

\* A write to an access port that fails after its acknowledge is in the response of its
\* own packet, when the last request can show it (dap.c:1008-1019).
THEOREM LateFailuresAreReportedHolds == Spec => []LateFailuresAreReported
  <1>1. IInv => LateFailuresAreReported
    BY DEF IInv
  <1> QED BY <1>1, Invariance, PTL

\* The target takes the requests in order and at most once, however often it makes
\* dap_transfer_word try again (dap.c:905-1019).
THEOREM EffectsInOrderHolds == Spec => []EffectsInOrder
  <1>1. IInv => EffectsInOrder
    BY DEF IInv
  <1> QED BY <1>1, Invariance, PTL

\* The probe loses its place in the packet nowhere else than at a compare of a posted
\* register that follows a posted read (dap.c:939, dap.c:947-960).
THEOREM LosesPlaceOnlyAtMatchHolds == Spec => []LosesPlaceOnlyAtMatch
  <1>1. IInv => LosesPlaceOnlyAtMatch
    BY DEF IInv
  <1> QED BY <1>1, Invariance, PTL

\* A compare that ends well looked at the value its own request read, when its posting
\* read was taken (dap.c:947-960).
THEOREM ComparesItsOwnValueHolds == Spec => ComparesItsOwnValue
  <1> DEFINE Own == /\ pc = "match" /\ count' = n /\ Trusted /\ matchRetries > 0
                    /\ NeedsPostedRead(entry) => n \in Values(log)
                    => data' = n
  <1>1. IInv /\ [Next]_vars => [Own]_vars
    <2> SUFFICES ASSUME IInv, Next, pc = "match", count' = n, Trusted, matchRetries > 0,
                        NeedsPostedRead(entry) => n \in Values(log)
                 PROVE  data' = n
      OBVIOUS
    <2>1. /\ TargetTypes /\ count \in Nat /\ n = count + 1 /\ n \in Nat
          /\ entry \in Requests /\ entry.rnw /\ ~entry.rdbuff
      BY DEF IInv, TypeOK, TargetTypes, Loop, AtRequest, n, Entries
    <2>2. Match
      <3>1. count' # count
        BY <2>1
      <3>2. ~Retry /\ ~MatchNone
        BY <3>1 DEF Retry, MatchNone, hostVars
      <3> QED BY <3>2 DEF Next, Probe, Start, Respond, Fetch, Leave, Pipe, Drain, MatchPost, Mask,
                          Post, ReadNow, WriteNow, Last, Verify
    <2>3. PICK a \in Acks, v \in {data, n, latched, 0} : Word(entry, n, a, v) /\ data' = v /\ a = "OK"
      BY <2>1, <2>2 DEF Match, NextOrBreak
    <2>4. ~Deceived
      BY DEF Trusted, Deceived
    <2>5. NeedsPostedRead(entry) => latched = n
      BY DEF IInv, Comparing
    <2> QED BY <2>1, <2>3, <2>4, <2>5, ReadWord
  <1> QED BY <1>1, Invariance, PTL DEF Spec, ComparesItsOwnValue
=============================================================================

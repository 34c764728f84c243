----------------------- MODULE DapTransferBlockProofs -----------------------
(***************************************************************************)
(* Proofs about DapTransferBlock: for blocks of any length, packets of any *)
(* size and any number of retries, the words of a posted read are in their *)
(* places and the count and the acknowledge of the response are honest.    *)
(***************************************************************************)
EXTENDS DapTransferBlock, SequenceTheorems, TLAPS

\* Where the loops are.
Loops ==
    /\ pc = "idle" => /\ i = 0 /\ count = 0 /\ Len(words) = 0 /\ Len(log) = 0
                      /\ ~bufError /\ request = Rdbuff /\ total = 0
                      /\ ack = "INVALID"
    /\ pc = "read" => /\ request \in Entries /\ request.rnw /\ total > 0
                      /\ i < Transfers
                      /\ count = IF Posted /\ i > 0 THEN i - 1 ELSE i
    /\ pc = "write" => /\ request \in Entries /\ ~request.rnw
                       /\ i < total /\ count = i
    /\ pc = "verify" => ~request.rnw /\ count = total

\* The target holds the word that the next transfer is to answer.
Pipelined == pc = "read" /\ Posted /\ i > 0 /\ Trusted => latched = i

IInv == /\ TypeOK /\ Loops /\ Pipelined
        /\ WordsInOrder /\ CountIsHonest /\ OkMeansDone

TargetTypes == latched \in Nat /\ faulted \in BOOLEAN /\ log \in Seq(Nat) /\ data \in Nat

\* What a read leaves in the target and in the caller's variable.
LEMMA ReadWord ==
    ASSUME TargetTypes, NEW r \in Requests, r.rnw, NEW m \in Nat,
           NEW a, NEW v, Word(r, m, a, v)
    PROVE  /\ latched' \in Nat /\ log' \in Seq(Nat)
           /\ faulted' = faulted /\ tries' = 0
           /\ a = "OK" /\ Trusted /\ (NeedsPostedRead(r) \/ r.rdbuff) => v = latched
           /\ a = "OK" /\ Trusted /\ NeedsPostedRead(r) /\ ~r.rdbuff => latched' = m
           /\ a = "OK" /\ ~NeedsPostedRead(r) /\ ~r.rdbuff => v = m
           /\ a = "OK" /\ port = "swd" /\ r.rdbuff => ~faulted
<1> USE DEF TargetTypes
<1>0. Append(log, m) \in Seq(Nat)
    BY AppendProperties
<1>1. ASSUME NEW w, Read(r, m, w)
      PROVE  /\ latched' \in Nat /\ log' \in Seq(Nat) /\ faulted' = faulted
  <2>1. CASE port = "swd" /\ SwdRead(r, m, w)
      BY <1>0, <2>1 DEF SwdRead, Take
  <2>2. CASE port = "jtag" /\ JtagRead(r, m, w)
      BY <1>0, <2>2 DEF JtagRead, Take
  <2> QED
      BY <1>1, <2>1, <2>2 DEF Read
<1>2. /\ latched' \in Nat /\ log' \in Seq(Nat) /\ faulted' = faulted
    BY <1>1 DEF Word, Operation, targetVars
<1>3. ASSUME a = "OK" PROVE Read(r, m, v)
    BY <1>3 DEF Word, Operation
<1>4. a = "OK" /\ Trusted /\ (NeedsPostedRead(r) \/ r.rdbuff) => v = latched
    BY <1>3 DEF Read, SwdRead, JtagRead, NeedsPostedRead
<1>5. a = "OK" /\ Trusted /\ NeedsPostedRead(r) /\ ~r.rdbuff => latched' = m
    BY <1>3 DEF Read, SwdRead, JtagRead, NeedsPostedRead, Trusted
<1>6. a = "OK" /\ ~NeedsPostedRead(r) /\ ~r.rdbuff => v = m
    BY <1>3 DEF Read, SwdRead, JtagRead, NeedsPostedRead
<1>7. a = "OK" /\ port = "swd" /\ r.rdbuff => ~faulted
    BY <1>3 DEF Read, SwdRead
<1> QED
    BY <1>2, <1>4, <1>5, <1>6, <1>7 DEF Word

\* What a write leaves in the target.
LEMMA WriteWord ==
    ASSUME TargetTypes, NEW r \in Requests, ~r.rnw, ~r.rdbuff, NEW m \in Nat,
           NEW a, NEW v, Word(r, m, a, v)
    PROVE  /\ latched' \in Nat /\ log' \in Seq(Nat) /\ faulted' \in BOOLEAN
           /\ tries' = 0
           /\ faulted => faulted'
           /\ a = "OK" /\ Trusted => Len(log') = Len(log) + 1
           /\ a # "OK" => log' = log
<1> USE DEF TargetTypes
<1>0. Append(log, m) \in Seq(Nat) /\ Len(Append(log, m)) = Len(log) + 1
    BY AppendProperties
<1>1. ASSUME a = "OK" PROVE Write(r, m)
    BY <1>1 DEF Word, Operation
<1>2. ASSUME a # "OK" PROVE UNCHANGED targetVars
    BY <1>2 DEF Word, Operation
<1>3. CASE a = "OK"
  <2>1. CASE port = "swd" /\ SwdWrite(r, m)
      BY <1>0, <1>3, <2>1 DEF SwdWrite, Take, Word
  <2>2. CASE port = "jtag" /\ JtagWrite(r, m)
      BY <1>0, <1>3, <2>2 DEF JtagWrite, Take, Word, Trusted
  <2> QED
      BY <1>1, <1>3, <2>1, <2>2 DEF Write
<1>4. CASE a # "OK"
    BY <1>2, <1>4 DEF targetVars, Word
<1> QED
    BY <1>3, <1>4

\* dap_resp_add_word keeps a response in order, and adds the word or fails.
LEMMA AddWordInOrder ==
    ASSUME words \in Seq(Nat), Len(words) <= Capacity, Capacity \in Nat,
           bufError \in BOOLEAN, NEW v \in Nat, AddWord(v)
    PROVE  /\ words' \in Seq(Nat) /\ Len(words') <= Capacity /\ bufError' \in BOOLEAN
           /\ ~bufError' => ~bufError /\ Len(words') = Len(words) + 1
           /\ /\ \A k \in 1..Len(words) : words[k] = k
              /\ ~bufError => v = Len(words) + 1
              => \A k \in 1..Len(words') : words'[k] = k
<1>1. /\ Append(words, v) \in Seq(Nat)
      /\ Len(Append(words, v)) = Len(words) + 1
      /\ \A k \in 1..Len(words) : Append(words, v)[k] = words[k]
      /\ Append(words, v)[Len(words) + 1] = v
    BY AppendProperties
<1>2. Len(words) \in Nat
    BY LenProperties
<1>3. CASE bufError \/ Len(words) = Capacity
    BY <1>3 DEF AddWord
<1>4. CASE ~(bufError \/ Len(words) = Capacity)
  <2>1. words' = Append(words, v) /\ bufError' = FALSE
      BY <1>4 DEF AddWord
  <2>2. Len(words') <= Capacity
      BY <1>1, <1>2, <1>4, <2>1
  <2>3. ASSUME \A k \in 1..Len(words) : words[k] = k, v = Len(words) + 1
        PROVE  \A k \in 1..Len(words') : words'[k] = k
    <3> SUFFICES ASSUME NEW k \in 1..Len(words')
                 PROVE  words'[k] = k
        OBVIOUS
    <3>1. k \in 1..Len(words) \/ k = Len(words) + 1
        BY <1>1, <1>2, <2>1
    <3> QED
        BY <1>1, <2>1, <2>3, <3>1
  <2>4. ~bufError /\ words' \in Seq(Nat) /\ Len(words') = Len(words) + 1
      BY <1>1, <1>4, <2>1
  <2> QED
      BY <2>1, <2>2, <2>3, <2>4
<1> QED
    BY <1>3, <1>4

USE RetryAssumption, TotalAssumption, CapacityAssumption

LEMMA InitIInv == Init => IInv
<1> SUFFICES ASSUME Init PROVE IInv
    OBVIOUS
<1>1. words \in Seq(Nat) /\ log \in Seq(Nat) /\ Len(words) = 0 /\ Len(log) = 0
    BY EmptySeq DEF Init
<1>2. request \in Requests
    BY DEF Init, Requests, Rdbuff
<1>3. TypeOK
  <2>1. /\ total \in 0..MaxTotal /\ given \in 0..Capacity /\ retries \in 0..MaxRetry
        /\ i \in 0..MaxTotal + 1 /\ count \in 0..MaxTotal /\ tries \in Nat
        /\ Len(words) <= Capacity
      BY <1>1 DEF Init
  <2>2. pc \in Calls \cup {"idle", "done"} /\ port \in Ports /\ ack \in Acks
      BY DEF Init, Acks
  <2> QED
      BY <1>1, <1>2, <2>1, <2>2 DEF Init, TypeOK
<1>4. Loops /\ Pipelined /\ WordsInOrder /\ CountIsHonest /\ OkMeansDone
    BY <1>1 DEF Init, Loops, Pipelined, WordsInOrder, CountIsHonest, OkMeansDone, Rdbuff
<1> QED
    BY <1>3, <1>4 DEF IInv

LEMMA StartIInv == ASSUME IInv, Start PROVE IInv'
<1> USE DEF IInv, Start, respVars, wordVars
<1>1. /\ request' \in Entries /\ request' \in Requests
      /\ total' \in 0..MaxTotal /\ given' \in 0..Capacity /\ retries' \in 0..MaxRetry
    BY DEF Entries
<1>2. pc' \in Calls \cup {"idle", "done"}
    BY DEF Calls
<1>3. TypeOK'
    BY <1>1, <1>2 DEF TypeOK
<1>4. i = 0 /\ count = 0 /\ Len(words) = 0 /\ Len(log) = 0 /\ ack = "INVALID"
    BY DEF Loops
<1>5. Loops'
  <2>1. pc' # "idle" /\ pc' # "verify"
      OBVIOUS
  <2>2. total' \in Nat /\ i' = 0 /\ count' = 0
      BY <1>1, <1>4
  <2>3. ASSUME pc' = "read" PROVE request'.rnw /\ total' > 0
      BY <2>2, <2>3
  <2>4. Transfers' = total' \/ Transfers' = total' + 1
      BY Zenon DEF Transfers
  <2>5. ASSUME pc' = "write" PROVE ~request'.rnw /\ total' > 0
      BY <2>2, <2>5
  <2>6. pc' = "read" => i' < Transfers'
      BY <2>2, <2>3, <2>4
  <2>7. count' = (IF Posted' /\ i' > 0 THEN i' - 1 ELSE i')
      BY <2>2
  <2> QED
      BY <1>1, <2>1, <2>2, <2>3, <2>5, <2>6, <2>7, Zenon DEF Loops
<1>6. Pipelined' /\ WordsInOrder' /\ CountIsHonest' /\ OkMeansDone'
    BY <1>4 DEF Pipelined, WordsInOrder, CountIsHonest, OkMeansDone
<1> QED
    BY <1>3, <1>5, <1>6

LEMMA RespondIInv == ASSUME IInv, Respond PROVE IInv'
<1> USE DEF IInv, Respond
<1>1. words' \in Seq(Nat) /\ log' \in Seq(Nat) /\ Len(words') = 0 /\ Len(log') = 0
    BY EmptySeq
<1>2. request' \in Requests
    BY DEF Requests, Rdbuff
<1>3. TypeOK'
  <2>1. /\ total' \in 0..MaxTotal /\ given' \in 0..Capacity /\ retries' \in 0..MaxRetry
        /\ i' \in 0..MaxTotal + 1 /\ count' \in 0..MaxTotal /\ tries' \in Nat
        /\ Len(words') <= Capacity
      BY <1>1
  <2>2. pc' \in Calls \cup {"idle", "done"} /\ ack' \in Acks /\ faulted' \in BOOLEAN
      BY DEF Acks, TypeOK
  <2> QED
      BY <1>1, <1>2, <2>1, <2>2 DEF TypeOK
<1>4. Loops' /\ Pipelined' /\ WordsInOrder' /\ CountIsHonest' /\ OkMeansDone'
    BY <1>1 DEF Loops, Pipelined, WordsInOrder, CountIsHonest, OkMeansDone, Rdbuff
<1> QED
    BY <1>3, <1>4

LEMMA RetryIInv == ASSUME IInv, Retry PROVE IInv'
<1> USE DEF IInv, Retry, RetryWord, hostVars, respVars
<1>1. TypeOK'
    BY DEF TypeOK
<1>2. Loops'
    BY DEF Loops, Transfers, Posted, NeedsPostedRead
<1>3. Pipelined' /\ WordsInOrder' /\ CountIsHonest' /\ OkMeansDone'
    BY DEF Pipelined, WordsInOrder, CountIsHonest, OkMeansDone, Posted, NeedsPostedRead,
           Trusted
<1> QED
    BY <1>1, <1>2, <1>3

\* A read of the block: the words that were there stay, and the new one fits.
LEMMA ReadIInv == ASSUME IInv, ReadBlock PROVE IInv'
<1> USE DEF IInv, hostVars
<1>0. /\ pc = "read" /\ request \in Entries /\ request.rnw /\ total > 0
      /\ i < Transfers
      /\ count = IF Posted /\ i > 0 THEN i - 1 ELSE i
      /\ i \in Nat /\ total \in Nat /\ total <= MaxTotal /\ count \in Nat
      /\ request \in Requests /\ ~request.rdbuff
    BY DEF ReadBlock, Loops, TypeOK, Entries
<1> DEFINE r == Request(i)
<1>1. r \in Requests /\ r.rnw /\ (i = total => r = Rdbuff /\ r.rdbuff)
      /\ (i # total => r = request)
    BY <1>0 DEF Request, Rdbuff, Requests
<1>2. PICK a \in Acks, v \in {data, i + 1, latched, 0} :
        /\ Word(r, i + 1, a, v)
        /\ data' = v /\ ack' = a
        /\ IF a = "OK"
           THEN /\ Collect(v)
                /\ i' = i + 1
                /\ pc' = IF i + 1 = Transfers THEN "done" ELSE "read"
           ELSE pc' = "done" /\ UNCHANGED <<i, count, respVars>>
    BY DEF ReadBlock
<1>3. TargetTypes /\ i + 1 \in Nat /\ v \in Nat
    BY <1>0, <1>2 DEF TargetTypes, TypeOK
<1>4. /\ latched' \in Nat /\ log' \in Seq(Nat)
      /\ faulted' = faulted /\ tries' = 0
      /\ a = "OK" /\ Trusted /\ (NeedsPostedRead(r) \/ r.rdbuff) => v = latched
      /\ a = "OK" /\ Trusted /\ NeedsPostedRead(r) /\ ~r.rdbuff => latched' = i + 1
      /\ a = "OK" /\ ~NeedsPostedRead(r) /\ ~r.rdbuff => v = i + 1
    BY <1>1, <1>2, <1>3, ReadWord
<1>5. /\ UNCHANGED hostVars /\ request' = r
    BY DEF ReadBlock
<1>6. Trusted' = Trusted
    BY <1>4, <1>5 DEF Trusted
<1>7. CASE a # "OK"
  <2>1. pc' = "done" /\ UNCHANGED <<i, count, words, bufError>> /\ ack' = a
      BY <1>2, <1>7 DEF respVars
  <2>2. TypeOK'
      BY <1>1, <1>2, <1>3, <1>4, <1>5, <2>1 DEF TypeOK
  <2>3. Loops' /\ Pipelined' /\ OkMeansDone'
      BY <1>7, <2>1 DEF Loops, Pipelined, OkMeansDone
  <2>4. WordsInOrder' /\ CountIsHonest'
      BY <1>0, <1>1, <1>5, <1>6, <2>1 DEF WordsInOrder, CountIsHonest
  <2> QED
      BY <2>2, <2>3, <2>4
<1>8. CASE a = "OK" /\ Posted /\ i = 0
  <2>1. /\ UNCHANGED <<count, words, bufError>> /\ i' = 1 /\ pc' = "read"
        /\ request' = request /\ count = 0
      BY <1>0, <1>1, <1>2, <1>5, <1>8 DEF Collect, respVars, Transfers
  <2>2. TypeOK'
      BY <1>0, <1>2, <1>3, <1>4, <1>5, <2>1 DEF TypeOK
  <2>3. Posted' = Posted /\ Transfers' = total + 1
      BY <1>5, <1>8, <2>1 DEF Posted, NeedsPostedRead, Transfers
  <2>4. Loops'
    <3>1. 1 < Transfers' /\ count' = (IF Posted' /\ i' > 0 THEN i' - 1 ELSE i')
        BY <1>0, <1>8, <2>1, <2>3
    <3> QED
        BY <1>0, <1>5, <2>1, <3>1 DEF Loops
  <2>5. Pipelined'
      BY <1>0, <1>1, <1>4, <1>6, <1>8, <2>1 DEF Pipelined, Posted
  <2>6. WordsInOrder' /\ CountIsHonest' /\ OkMeansDone'
      BY <1>0, <1>6, <2>1 DEF WordsInOrder, CountIsHonest, OkMeansDone
  <2> QED
      BY <2>2, <2>4, <2>5, <2>6
<1>9. CASE a = "OK" /\ ~(Posted /\ i = 0)
  <2>1. /\ AddWord(v) /\ count' = count + 1 /\ i' = i + 1 /\ ack' = "OK"
        /\ pc' = IF i + 1 = Transfers THEN "done" ELSE "read"
      BY <1>2, <1>9 DEF Collect
  <2>2. count + 1 = IF Posted THEN i ELSE i + 1
      BY <1>0, <1>9
  <2>3. ~bufError => count = Len(words)
      BY <1>0 DEF CountIsHonest
  <2>4. Trusted /\ ~bufError => v = Len(words) + 1
    <3>1. CASE Posted
      <4>1. i > 0 /\ (Trusted => latched = i)
          BY <1>0, <1>9, <3>1 DEF Pipelined
      <4>2. Trusted => v = latched
          BY <1>1, <1>4, <1>9, <3>1 DEF Posted
      <4> QED
          BY <2>2, <2>3, <3>1, <4>1, <4>2
    <3>2. CASE ~Posted
      <4>1. i # total
          BY <1>0, <3>2 DEF Transfers
      <4>2. v = i + 1
          BY <1>0, <1>1, <1>4, <1>9, <3>2, <4>1 DEF Posted
      <4> QED
          BY <1>0, <2>2, <2>3, <3>2, <4>2
    <3> QED
        BY <3>1, <3>2
  <2>5. /\ words' \in Seq(Nat) /\ Len(words') <= Capacity /\ bufError' \in BOOLEAN
        /\ ~bufError' => ~bufError /\ Len(words') = Len(words) + 1
        /\ Trusted => \A k \in 1..Len(words') : words'[k] = k
      BY <1>3, <2>1, <2>4, AddWordInOrder DEF TypeOK, WordsInOrder
  <2>6. i + 1 <= Transfers /\ Transfers <= total + 1 /\ Transfers \in Nat
        /\ (Posted => Transfers = total + 1) /\ (~Posted => Transfers = total)
      BY <1>0 DEF Transfers
  <2>7. TypeOK'
    <3>1. i' \in 0..MaxTotal + 1 /\ count' \in 0..MaxTotal
        BY <1>0, <2>1, <2>2, <2>6
    <3>2. pc' \in Calls \cup {"idle", "done"}
        BY <2>1 DEF Calls
    <3> QED
        BY <1>1, <1>2, <1>3, <1>4, <1>5, <2>5, <3>1, <3>2 DEF TypeOK
  <2>8. ASSUME pc' = "read"
        PROVE  i + 1 < Transfers /\ request' = request /\ Posted' = Posted
               /\ Transfers' = Transfers /\ i # total
    <3>1. i + 1 # Transfers
        BY <2>1, <2>8
    <3>2. i # total
        BY <1>0, <2>6, <3>1
    <3> QED
        BY <1>0, <1>1, <1>5, <2>6, <3>1, <3>2 DEF Posted, NeedsPostedRead, Transfers
  <2>9. Loops'
      BY <1>0, <1>5, <2>1, <2>2, <2>8 DEF Loops
  <2>10. Pipelined'
    <3> SUFFICES ASSUME pc' = "read", Posted', Trusted'
                 PROVE  latched' = i + 1
        BY <2>1 DEF Pipelined
    <3>1. Posted /\ i # total
        BY <1>0, <2>8 DEF Transfers
    <3> QED
        BY <1>0, <1>1, <1>4, <1>6, <1>9, <3>1 DEF Posted
  <2>11. WordsInOrder'
      BY <1>6, <2>5 DEF WordsInOrder
  <2>12. CountIsHonest'
      BY <1>1, <1>5, <2>1, <2>3, <2>5 DEF CountIsHonest
  <2>13. OkMeansDone'
      BY <1>0, <1>1, <1>5, <2>1, <2>2, <2>6 DEF OkMeansDone
  <2> QED
      BY <2>7, <2>9, <2>10, <2>11, <2>12, <2>13
<1> QED
    BY <1>7, <1>8, <1>9

LEMMA WriteIInv == ASSUME IInv, WriteBlock PROVE IInv'
<1> USE DEF IInv, hostVars
<1>0. /\ pc = "write" /\ request \in Requests /\ ~request.rnw /\ ~request.rdbuff
      /\ i < total /\ count = i /\ i \in Nat /\ total \in 0..MaxTotal
    BY DEF WriteBlock, Loops, TypeOK, Entries
<1> DEFINE m == IF i < given THEN i + 1 ELSE 0
<1>1. PICK a \in Acks :
        /\ Word(request, m, a, data)
        /\ ack' = a
        /\ IF a = "OK"
           THEN /\ i' = i + 1 /\ count' = count + 1
                /\ pc' = IF i + 1 = total THEN "verify" ELSE "write"
           ELSE pc' = "done" /\ UNCHANGED <<i, count>>
    BY DEF WriteBlock
<1>2. TargetTypes /\ m \in Nat
    BY <1>0 DEF TargetTypes, TypeOK
<1>3. /\ latched' \in Nat /\ log' \in Seq(Nat) /\ faulted' \in BOOLEAN /\ tries' = 0
      /\ faulted => faulted'
      /\ a = "OK" /\ Trusted => Len(log') = Len(log) + 1
      /\ a # "OK" => log' = log
    BY <1>0, <1>1, <1>2, WriteWord
<1>4. /\ data' = 0 /\ bufError' = (bufError \/ i >= given)
      /\ UNCHANGED <<port, retries, total, given, request, words>>
    BY DEF WriteBlock
<1>5. Trusted' => Trusted
    BY <1>3, <1>4 DEF Trusted
<1>6. TypeOK'
  <2>1. i' \in 0..MaxTotal + 1 /\ count' \in 0..MaxTotal
      BY <1>0, <1>1
  <2>2. pc' \in Calls \cup {"idle", "done"} /\ bufError' \in BOOLEAN
      BY <1>1, <1>4 DEF Calls
  <2> QED
      BY <1>1, <1>3, <1>4, <2>1, <2>2 DEF TypeOK
<1>7. Loops'
  <2>1. CASE a = "OK"
      BY <1>0, <1>1, <1>4, <2>1 DEF Loops, WriteBlock
  <2>2. CASE a # "OK"
      BY <1>1, <2>2 DEF Loops
  <2> QED
      BY <2>1, <2>2
<1>8. Pipelined' /\ OkMeansDone'
    BY <1>1 DEF Pipelined, OkMeansDone
<1>9. WordsInOrder'
    BY <1>4, <1>5 DEF WordsInOrder
<1>10. CountIsHonest'
    BY <1>0, <1>1, <1>3, <1>4, <1>5 DEF CountIsHonest
<1> QED
    BY <1>6, <1>7, <1>8, <1>9, <1>10

LEMMA VerifyIInv == ASSUME IInv, Verify PROVE IInv'
<1> USE DEF IInv, hostVars
<1>0. /\ pc = "verify" /\ ~request.rnw /\ count = total
      /\ pc' = "done" /\ data' = data
      /\ UNCHANGED <<port, retries, total, given, request, i, count, words, bufError>>
    BY DEF Verify, Loops, respVars
<1>1. PICK a \in Acks, v \in {data, latched, 0} : Word(Rdbuff, 0, a, v) /\ ack' = a
    BY DEF Verify
<1>2. Rdbuff \in Requests /\ Rdbuff.rnw /\ Rdbuff.rdbuff /\ TargetTypes
    BY DEF Rdbuff, Requests, TargetTypes, TypeOK
<1>3. /\ latched' \in Nat /\ log' \in Seq(Nat) /\ faulted' = faulted /\ tries' = 0
      /\ a = "OK" /\ port = "swd" => ~faulted
    BY <1>1, <1>2, ReadWord
<1>4. log' = log
    BY <1>1, <1>2 DEF Word, Operation, Read, SwdRead, JtagRead, Take, targetVars
<1>5. Trusted' = Trusted
    BY <1>0, <1>3 DEF Trusted
<1>6. TypeOK'
    BY <1>0, <1>1, <1>3 DEF TypeOK
<1>7. Loops' /\ Pipelined'
    BY <1>0 DEF Loops, Pipelined
<1>8. WordsInOrder' /\ CountIsHonest'
    BY <1>0, <1>4, <1>5 DEF WordsInOrder, CountIsHonest
<1>9. OkMeansDone'
    BY <1>0, <1>1, <1>3 DEF OkMeansDone
<1> QED
    BY <1>6, <1>7, <1>8, <1>9

LEMMA NextIInv == IInv /\ [Next]_vars => IInv'
<1> SUFFICES ASSUME IInv, [Next]_vars PROVE IInv'
    OBVIOUS
<1>1. CASE UNCHANGED vars
    BY <1>1 DEF vars, hostVars, respVars, wordVars, IInv, TypeOK, Loops, Pipelined,
                WordsInOrder, CountIsHonest, OkMeansDone, Transfers, Posted,
                NeedsPostedRead, Trusted
<1> QED
    BY <1>1, StartIInv, RespondIInv, RetryIInv, ReadIInv, WriteIInv, VerifyIInv
    DEF Next, Probe

\* The inductive invariant holds in every state, whatever the bounds.
THEOREM Invariance == Spec => []IInv
<1>1. Init => IInv
    BY InitIInv
<1>2. IInv /\ [Next]_vars => IInv'
    BY NextIInv
<1> QED
    BY <1>1, <1>2, PTL DEF Spec

\* Every state is of its type.
THEOREM TypeCorrect == Spec => []TypeOK
<1>1. IInv => TypeOK
    BY DEF IInv
<1> QED
    BY <1>1, Invariance, PTL

\* Word k of a block is the value of read k, for blocks of any length.
THEOREM PostedReadsInOrder == Spec => []WordsInOrder
<1>1. IInv => WordsInOrder
    BY DEF IInv
<1> QED
    BY <1>1, Invariance, PTL

\* The count of a block never claims what was not done.
THEOREM HonestCount == Spec => []CountIsHonest
<1>1. IInv => CountIsHonest
    BY DEF IInv
<1> QED
    BY <1>1, Invariance, PTL

\* OK stands for the whole block, the late failure of a write included.
THEOREM HonestOk == Spec => []OkMeansDone
<1>1. IInv => OkMeansDone
    BY DEF IInv
<1> QED
    BY <1>1, Invariance, PTL
=============================================================================

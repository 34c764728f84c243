-------------------------- MODULE DapTransferBlock --------------------------
(***************************************************************************)
(* DAP_TransferBlock of free-dap (dap_transfer_block): one request byte is *)
(* carried out total times, as reads that run one transfer ahead of their  *)
(* answers or as writes whose words come with the packet.  Neither loop    *)
(* looks at dap_buf_error: reads go on when the response is full, and      *)
(* writes go on, writing 0, when the packet has no more words.             *)
(***************************************************************************)
EXTENDS DapTarget

CONSTANTS MaxTotal,    \* bound on req_count
          Capacity     \* the words that fit in a packet

ASSUME TotalAssumption == MaxTotal \in Nat
ASSUME CapacityAssumption == Capacity \in Nat

VARIABLES
    pc,            \* where dap_transfer_block is
    request,       \* request, then RDBUFF for the last posted read
    total,         \* req_count
    given,         \* the words that come with a write
    i,             \* i of the two loops
    ack, count,    \* ack and resp_count
    words,         \* the words of the response
    bufError       \* dap_buf_error

hostVars == <<port, retries, total, given>>
respVars == <<words, bufError>>
vars == <<pc, hostVars, request, i, ack, count, respVars, wordVars>>

Calls == {"read", "write", "verify"}

Init == /\ pc = "idle"
        /\ port \in Ports
        /\ retries = 0 /\ total = 0 /\ given = 0
        /\ request = Rdbuff /\ i = 0
        /\ ack = "INVALID" /\ count = 0
        /\ words = <<>> /\ bufError = FALSE
        /\ tries = 0 /\ data = 0
        /\ latched = 0 /\ faulted = FALSE /\ log = <<>>
-----------------------------------------------------------------------------
\* dap_transfer_block is called with a packet.  With nothing to do it returns
\* before it reads the request byte.
Start == /\ pc = "idle"
         /\ request' \in {r \in Entries : ~r.special}
         /\ total' \in 0..MaxTotal
         /\ given' \in 0..Capacity
         /\ retries' \in 0..MaxRetry
         /\ pc' = IF total' = 0 THEN "done" ELSE IF request'.rnw THEN "read" ELSE "write"
         /\ UNCHANGED <<port, i, ack, count, respVars, wordVars>>

Respond == /\ pc = "done" /\ pc' = "idle"
           /\ retries' = 0 /\ total' = 0 /\ given' = 0
           /\ request' = Rdbuff /\ i' = 0
           /\ ack' = "INVALID" /\ count' = 0
           /\ words' = <<>> /\ bufError' = FALSE
           /\ tries' = 0 /\ data' = 0
           /\ latched' = 0 /\ log' = <<>>
           /\ faulted' \in {faulted, FALSE}
           /\ port' = port

Retry == /\ pc \in Calls
         /\ RetryWord
         /\ UNCHANGED <<pc, hostVars, request, i, ack, count, respVars>>

\* dap_resp_add_word, called with v.
AddWord(v) == IF bufError \/ Len(words) = Capacity
              THEN bufError' = TRUE /\ words' = words
              ELSE bufError' = FALSE /\ words' = Append(words, v)

Posted == NeedsPostedRead(request)

\* Mutant of Transfers: the last posted read is not collected.
TransfersOneShort == total

Transfers == IF Posted THEN total + 1 ELSE total

\* The request of transfer k, counted from 0: RDBUFF comes after the last read.
Request(k) == IF k = total THEN Rdbuff ELSE request

\* Mutant of Collect: the answer to the first posted read is kept.
CollectAll(v) == AddWord(v) /\ count' = count + 1

\* Mutant of Collect: the transfer that only posts is counted.
CollectCountsFirst(v) == IF Posted /\ i = 0
                         THEN count' = count + 1 /\ UNCHANGED respVars
                         ELSE AddWord(v) /\ count' = count + 1

\* What the first posted read answers belongs to an older read.
Collect(v) == IF Posted /\ i = 0
              THEN UNCHANGED <<count, respVars>>
              ELSE AddWord(v) /\ count' = count + 1

\* Transfer i of the read loop.
ReadBlock == /\ pc = "read"
         /\ \E a \in Acks, v \in {data, i + 1, latched, 0} :
              /\ Word(Request(i), i + 1, a, v)
              /\ data' = v /\ ack' = a
              /\ IF a = "OK"
                 THEN /\ Collect(v)
                      /\ i' = i + 1
                      /\ pc' = IF i + 1 = Transfers THEN "done" ELSE "read"
                 ELSE pc' = "done" /\ UNCHANGED <<i, count, respVars>>
         /\ request' = Request(i)
         /\ UNCHANGED hostVars

\* Mutant of WriteBlock: the last write is not verified.
WriteUnverified ==
    /\ pc = "write"
    /\ \E a \in Acks :
         /\ Word(request, IF i < given THEN i + 1 ELSE 0, a, data)
         /\ ack' = a
         /\ IF a = "OK"
            THEN /\ i' = i + 1 /\ count' = count + 1
                 /\ pc' = IF i + 1 = total THEN "done" ELSE "write"
            ELSE pc' = "done" /\ UNCHANGED <<i, count>>
    /\ data' = 0
    /\ bufError' = (bufError \/ i >= given)
    /\ UNCHANGED <<hostVars, request, words>>

\* Transfer i of the write loop.
WriteBlock ==
    /\ pc = "write"
    /\ \E a \in Acks :
         /\ Word(request, IF i < given THEN i + 1 ELSE 0, a, data)
         /\ ack' = a
         /\ IF a = "OK"
            THEN /\ i' = i + 1 /\ count' = count + 1
                 /\ pc' = IF i + 1 = total THEN "verify" ELSE "write"
            ELSE pc' = "done" /\ UNCHANGED <<i, count>>
    /\ data' = 0
    /\ bufError' = (bufError \/ i >= given)
    /\ UNCHANGED <<hostVars, request, words>>

\* RDBUFF at the end of a write: to learn whether the last word went through.
Verify == /\ pc = "verify"
          /\ \E a \in Acks, v \in {data, latched, 0} : Word(Rdbuff, 0, a, v) /\ ack' = a
          /\ data' = data
          /\ pc' = "done"
          /\ UNCHANGED <<hostVars, request, i, count, respVars>>

Probe == Retry \/ ReadBlock \/ WriteBlock \/ Verify

Next == Start \/ Respond \/ Probe

Spec == Init /\ [][Next]_vars

\* A request is carried out inside the USB interrupt, to its end.
FairSpec == Spec /\ WF_vars(Probe)
-----------------------------------------------------------------------------
TypeOK == /\ pc \in Calls \cup {"idle", "done"}
          /\ port \in Ports
          /\ request \in Requests
          /\ total \in 0..MaxTotal /\ given \in 0..Capacity
          /\ retries \in 0..MaxRetry /\ tries \in Nat
          /\ i \in 0..MaxTotal + 1 /\ count \in 0..MaxTotal
          /\ ack \in Acks
          /\ words \in Seq(Nat) /\ Len(words) <= Capacity
          /\ bufError \in BOOLEAN
          /\ data \in Nat /\ latched \in Nat /\ faulted \in BOOLEAN /\ log \in Seq(Nat)

\* JTAG has one code for OK and FAULT: with a sticky error its OK means nothing.
Trusted == ~(port = "jtag" /\ faulted)

\* Word k of the response is what read k of the block read, although on a posted
\* register it came with transfer k + 1 (dap.c:1048-1067).
WordsInOrder == Trusted => \A k \in 1..Len(words) : words[k] = k

\* The count of the response never claims what was not done: for a read, a word
\* for each, unless the response was full; for a write, a word the target took.
CountIsHonest == /\ request.rnw /\ ~bufError => count = Len(words)
                 /\ ~request.rnw /\ Trusted => count = Len(log)

\* A response that says OK, and that no buffer cut short, stands for the whole
\* block, the last write to an access port of SWD included.
OkMeansDone ==
    pc = "done" /\ ack = "OK" /\ ~bufError =>
        /\ count = total
        /\ port = "swd" /\ ~request.rnw => ~faulted

\* Every request gets its response, whatever the target answers.
BlockIsAnswered == pc \in Calls ~> pc = "done"
=============================================================================

----------------------------- MODULE DapTarget -----------------------------
(***************************************************************************)
(* What dap_transfer and dap_transfer_block call: dap_transfer_word, with  *)
(* its retries, and the debug port of the target at the other end of the   *)
(* wire.  The port follows the ARM debug interface as dap.c relies on it:  *)
(* a posted read answers with the result of the read before it, RDBUFF     *)
(* answers with the last result, and a write to an access port may fail    *)
(* after it was acknowledged.                                              *)
(*                                                                         *)
(* A value read is the number of the transfer that read it; 0 is any other *)
(* value: an uninitialised variable, a corrupt word, a stale register.     *)
(***************************************************************************)
EXTENDS Naturals, Sequences

CONSTANTS MaxRetry   \* bound on dap_retry_count and dap_match_retry_count

ASSUME RetryAssumption == MaxRetry \in Nat

VARIABLES
    port,      \* dap_port, "swd" or "jtag"
    retries,   \* dap_retry_count
    tries,     \* i of dap_transfer_word
    data,      \* data of the handler that calls
    latched,   \* the target: the result of the last posted read
    faulted,   \* the target: an acknowledged write failed (sticky error)
    log        \* the target: the transfers it took, in order

targetVars == <<latched, faulted, log>>
wordVars == <<tries, data, latched, faulted, log>>

Ports == {"swd", "jtag"}
Acks == {"OK", "WAIT", "FAULT", "ERROR", "INVALID"}

\* A request byte; special is MATCH_VALUE of a read and MATCH_MASK of a write.
Requests == [ap : BOOLEAN, rnw : BOOLEAN, special : BOOLEAN, rdbuff : BOOLEAN]
Entries == {r \in Requests : ~r.rdbuff}
Rdbuff == [ap |-> FALSE, rnw |-> TRUE, special |-> FALSE, rdbuff |-> TRUE]

\* Mutant of NeedsPostedRead: DP reads on JTAG answer at once.
NeedsPostedApOnly(r) == r.rnw /\ r.ap

\* Mutant of NeedsPostedRead: writes are taken for reads.
NeedsPostedAnyway(r) == port = "jtag" \/ r.ap

NeedsPostedRead(r) == r.rnw /\ (port = "jtag" \/ r.ap)
-----------------------------------------------------------------------------
\* The target takes transfer n with request r.  A value for the probe is v.

Take(r, n) == log' = IF r.rdbuff THEN log ELSE Append(log, n)

\* SWD: an AP read is posted, any other read answers at once.
SwdRead(r, n, v) == /\ faulted => ~(r.ap \/ r.rdbuff)
                    /\ v = IF r.ap \/ r.rdbuff THEN latched ELSE n
                    /\ latched' = IF r.ap THEN n ELSE latched
                    /\ faulted' = faulted
                    /\ Take(r, n)

SwdWrite(r, n) == /\ faulted => ~r.ap
                  /\ faulted' \in {faulted, faulted \/ r.ap}
                  /\ latched' = latched
                  /\ Take(r, n)

\* JTAG: every read is posted.  OK and FAULT have one code, so a target with a
\* sticky error acknowledges what it does not do.
JtagRead(r, n, v) == /\ v = latched
                     /\ latched' = IF r.rdbuff \/ (faulted /\ r.ap) THEN 0 ELSE n
                     /\ faulted' = faulted
                     /\ IF faulted /\ r.ap THEN log' = log ELSE Take(r, n)

JtagWrite(r, n) == /\ latched' = 0
                   /\ faulted' \in {faulted, faulted \/ r.ap}
                   /\ IF faulted /\ r.ap THEN log' = log ELSE Take(r, n)

Read(r, n, v) == \/ port = "swd" /\ SwdRead(r, n, v)
                 \/ port = "jtag" /\ JtagRead(r, n, v)

Write(r, n) == \/ port = "swd" /\ SwdWrite(r, n)
               \/ port = "jtag" /\ JtagWrite(r, n)

\* One transfer (dap_swd_operation, dap_jtag_operation), the last one of
\* dap_transfer_word, that leaves v in the caller's variable and returns ack a.
Operation(r, n, a, v) ==
    \/ a = "OK" /\ r.rnw /\ Read(r, n, v)
    \/ a = "OK" /\ ~r.rnw /\ v = data /\ Write(r, n)
    \/ a = "ERROR" /\ port = "swd" /\ r.rnw /\ v = 0 /\ \E w \in {n, latched} : Read(r, n, w)
    \/ a = "WAIT" /\ v = data /\ UNCHANGED targetVars
    \/ a = "FAULT" /\ port = "swd" /\ v = data /\ UNCHANGED targetVars
    \/ a = "INVALID" /\ v = data /\ UNCHANGED targetVars

\* dap_transfer_word returns a; a WAIT is returned when the retries are used up.
Word(r, n, a, v) ==
    /\ \/ retries = 0 /\ a = "INVALID" /\ v = data /\ UNCHANGED targetVars
       \/ /\ retries > 0
          /\ a = "WAIT" => tries + 1 = retries
          /\ Operation(r, n, a, v)
    /\ tries' = 0

\* Mutant of RetryWord: the counter is too narrow to reach the limit.
RetryNarrow == /\ retries > 0
               /\ tries' = (tries + 1) % retries
               /\ UNCHANGED <<data, latched, faulted, log>>

\* The target answers WAIT and dap_transfer_word tries again.
RetryWord == /\ tries + 1 < retries
             /\ tries' = tries + 1
             /\ UNCHANGED <<data, latched, faulted, log>>
=============================================================================

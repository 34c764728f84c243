---------------------------- MODULE DapTransfer ----------------------------
(***************************************************************************)
(* DAP_Transfer of free-dap (dap_transfer): a list of reads, writes and    *)
(* compares is carried out against the target, and the response returns    *)
(* how many were done, the last acknowledge and the words read.  A read    *)
(* that is posted is answered by the transfer after it, so the words of    *)
(* the response run one transfer behind the requests.  pc names the call   *)
(* of dap_transfer_word that is under way, or where the loop is.           *)
(*                                                                         *)
(* dap_abort is left out: in this firmware nothing calls                   *)
(* dap_filter_request, the only place that sets it (see DapTransport).     *)
(***************************************************************************)
EXTENDS DapTarget

CONSTANTS MaxEntries,  \* bound on the requests of one DAP_Transfer
          Capacity     \* the words that fit in a response

ASSUME EntriesAssumption == MaxEntries \in Nat
ASSUME CapacityAssumption == Capacity \in Nat

VARIABLES
    pc,            \* where dap_transfer is
    entries,       \* the requests of the packet
    matchRetries,  \* dap_match_retry_count
    entry,         \* request
    synced,        \* request is the one the host meant
    posted,        \* posted_read
    verify,        \* verify_write
    ack, count,    \* ack and resp_count
    looks,         \* i of the compare loop
    words,         \* the words of the response
    bufError       \* dap_buf_error

hostVars == <<port, retries, matchRetries, entries>>
loopVars == <<entry, synced, verify>>
respVars == <<words, bufError>>
vars == <<pc, hostVars, loopVars, posted, ack, count, looks, respVars, wordVars>>

Calls == {"pipe", "drain", "match_post", "match", "post", "read", "write",
          "last", "verify"}

n == count + 1   \* the number of the request under way

\* Nothing of the last packet is left but the sticky error, and in the target the
\* result of an old read.
Init == /\ pc = "idle"
        /\ port \in Ports
        /\ entries = <<>> /\ retries = 0 /\ matchRetries = 0
        /\ entry = Rdbuff /\ synced = TRUE
        /\ posted = FALSE /\ verify = FALSE
        /\ ack = "INVALID" /\ count = 0 /\ looks = 0
        /\ words = <<>> /\ bufError = FALSE
        /\ tries = 0 /\ data = 0
        /\ latched = 0 /\ faulted = FALSE /\ log = <<>>
-----------------------------------------------------------------------------
\* dap_transfer is called with a packet.
Start == /\ pc = "idle"
         /\ pc' = "fetch"
         /\ entries' \in UNION {[1..k -> Entries] : k \in 0..MaxEntries}
         /\ retries' \in 0..MaxRetry
         /\ matchRetries' \in 0..MaxRetry
         /\ UNCHANGED <<port, loopVars, posted, ack, count, looks, respVars, wordVars>>

\* The response is on its way.  A DAP_WriteABORT may clear the sticky error before
\* the next packet.
Respond == /\ pc = "done" /\ pc' = "idle"
           /\ entries' = <<>> /\ retries' = 0 /\ matchRetries' = 0
           /\ entry' = Rdbuff /\ synced' = TRUE
           /\ posted' = FALSE /\ verify' = FALSE
           /\ ack' = "INVALID" /\ count' = 0 /\ looks' = 0
           /\ words' = <<>> /\ bufError' = FALSE
           /\ tries' = 0 /\ data' = 0
           /\ latched' = 0 /\ log' = <<>>
           /\ faulted' \in {faulted, FALSE}
           /\ port' = port

\* dap_resp_add_word, called with v.
AddWord(v) == IF bufError \/ Len(words) = Capacity
              THEN bufError' = TRUE /\ words' = words
              ELSE bufError' = FALSE /\ words' = Append(words, v)

\* Whether a word follows request e in the packet.
HasWord(e) == e.special \/ ~e.rnw

\* The call of dap_transfer_word for request e, or the mask that e sets.
Branch(e) == CASE e.rnw /\ e.special -> IF NeedsPostedRead(e) THEN "match_post" ELSE "match"
               [] e.rnw /\ ~e.special -> IF NeedsPostedRead(e) THEN "post" ELSE "read"
               [] ~e.rnw /\ e.special -> "mask"
               [] OTHER -> "write"

\* The head of the loop: the next request byte, and the result it owes.
Fetch == /\ pc = "fetch" /\ count < Len(entries) /\ ~bufError
         /\ entry' \in IF synced THEN {entries[n]} ELSE Entries
         /\ verify' = FALSE
         /\ pc' = IF ~posted THEN Branch(entry')
                  ELSE IF NeedsPostedRead(entry') THEN "pipe" ELSE "drain"
         /\ UNCHANGED <<hostVars, synced, posted, ack, count, looks, respVars, wordVars>>

\* Mutant of Leave: the last posted read is not collected.
LeaveUncollected ==
    /\ pc = "fetch" /\ (count = Len(entries) \/ bufError)
    /\ pc' = IF ack = "OK" /\ verify THEN "verify" ELSE "done"
    /\ UNCHANGED <<hostVars, loopVars, posted, ack, count, looks, respVars, wordVars>>

\* Mutant of Leave: the last write is not verified.
LeaveUnverified ==
    /\ pc = "fetch" /\ (count = Len(entries) \/ bufError)
    /\ pc' = IF ack = "OK" /\ posted THEN "last" ELSE "done"
    /\ UNCHANGED <<hostVars, loopVars, posted, ack, count, looks, respVars, wordVars>>

\* The end of the loop.
Leave == /\ pc = "fetch" /\ (count = Len(entries) \/ bufError)
         /\ pc' = CASE ack = "OK" /\ posted -> "last"
                    [] ack = "OK" /\ ~posted /\ verify -> "verify"
                    [] OTHER -> "done"
         /\ UNCHANGED <<hostVars, loopVars, posted, ack, count, looks, respVars, wordVars>>

Retry == /\ pc \in Calls
         /\ RetryWord
         /\ UNCHANGED <<pc, hostVars, loopVars, posted, ack, count, looks, respVars>>

\* The loop goes on with the next request, or breaks with a bad acknowledge.
NextOrBreak(a) == IF a = "OK" THEN pc' = "fetch" /\ count' = n
                  ELSE pc' = "done" /\ count' = count

\* A posted read, or a compare, follows a posted read: it answers with the result
\* of the one before and is done.  The value to compare with stays in the request.
Pipe == /\ pc = "pipe"
        /\ \E a \in Acks : \E v \in {data, n, latched, 0} :
             /\ Word(entry, n, a, v)
             /\ data' = v /\ ack' = a
             /\ IF a = "OK" THEN AddWord(v) ELSE UNCHANGED respVars
             /\ NextOrBreak(a)
        /\ synced' = (synced /\ ~HasWord(entry))
        /\ UNCHANGED <<hostVars, entry, verify, posted, looks>>

\* Mutant of Drain: the request under way is used to collect the word.
DrainByRequest ==
    /\ pc = "drain"
    /\ \E a \in Acks : \E v \in {data, n, latched, 0} :
         /\ Word(entry, n, a, v)
         /\ data' = v /\ ack' = a
         /\ IF a = "OK" THEN AddWord(v) /\ pc' = Branch(entry)
            ELSE UNCHANGED respVars /\ pc' = "done"
    /\ posted' = FALSE
    /\ UNCHANGED <<hostVars, loopVars, count, looks>>

\* A write, or a read that is not posted, follows: RDBUFF is read first.
Drain == /\ pc = "drain"
         /\ \E a \in Acks : \E v \in {data, latched, 0} :
              /\ Word(Rdbuff, 0, a, v)
              /\ data' = v /\ ack' = a
              /\ IF a = "OK" THEN AddWord(v) /\ pc' = Branch(entry)
                 ELSE UNCHANGED respVars /\ pc' = "done"
         /\ posted' = FALSE
         /\ UNCHANGED <<hostVars, loopVars, count, looks>>

\* A compare of a posted register starts with a read whose answer, and whose
\* acknowledge, are thrown away.
MatchPost == /\ pc = "match_post"
             /\ \E a \in Acks, v \in {data, n, latched, 0} : Word(entry, n, a, v)
             /\ data' = data
             /\ pc' = "match" /\ looks' = 0
             /\ UNCHANGED <<hostVars, loopVars, posted, ack, count, respVars>>

\* Mutant of Match: an equal value is enough, whatever the acknowledge.
MatchIgnoresAck ==
    /\ pc = "match" /\ looks < matchRetries
    /\ \E a \in Acks, v \in {data, n, latched, 0}, equal \in BOOLEAN :
         /\ Word(entry, n, a, v)
         /\ data' = v
         /\ IF a = "OK" /\ ~equal /\ looks + 1 < matchRetries
            THEN /\ looks' = looks + 1 /\ ack' = a
                 /\ UNCHANGED <<pc, count>>
            ELSE /\ looks' = 0
                 /\ ack' = IF equal THEN "OK" ELSE "MISMATCH"
                 /\ NextOrBreak(ack')
    /\ UNCHANGED <<hostVars, loopVars, posted, respVars>>

\* One read of the compare loop and the test after the loop.  Whether the value,
\* masked, equals the one asked for is left open.
Match == /\ pc = "match" /\ looks < matchRetries
         /\ \E a \in Acks, v \in {data, n, latched, 0}, equal \in BOOLEAN :
              /\ Word(entry, n, a, v)
              /\ data' = v
              /\ IF a = "OK" /\ ~equal /\ looks + 1 < matchRetries
                 THEN /\ looks' = looks + 1 /\ ack' = a
                      /\ UNCHANGED <<pc, count>>
                 ELSE /\ looks' = 0
                      /\ ack' = IF equal THEN a ELSE "MISMATCH"
                      /\ NextOrBreak(ack')
         /\ UNCHANGED <<hostVars, loopVars, posted, respVars>>

\* With dap_match_retry_count 0 the target is not read at all: what data and ack
\* were before is looked at.
MatchNone == /\ pc = "match" /\ matchRetries = 0
             /\ \E equal \in BOOLEAN :
                  /\ ack' = IF equal THEN ack ELSE "MISMATCH"
                  /\ NextOrBreak(ack')
             /\ UNCHANGED <<hostVars, loopVars, posted, looks, respVars, wordVars>>

\* A write of the mask stays in the probe.
Mask == /\ pc = "mask"
        /\ ack' = "OK" /\ data' = 0
        /\ NextOrBreak("OK")
        /\ UNCHANGED <<hostVars, loopVars, posted, looks, respVars, tries, targetVars>>

\* The first read of a run of posted reads.
Post == /\ pc = "post"
        /\ \E a \in Acks, v \in {data, n, latched, 0} :
             /\ Word(entry, n, a, v)
             /\ ack' = a /\ posted' = (a = "OK")
             /\ NextOrBreak(a)
        /\ data' = data
        /\ UNCHANGED <<hostVars, loopVars, looks, respVars>>

ReadNow == /\ pc = "read"
           /\ \E a \in Acks, v \in {data, n, latched, 0} :
                /\ Word(entry, n, a, v)
                /\ data' = v /\ ack' = a
                /\ IF a = "OK" THEN AddWord(v) ELSE UNCHANGED respVars
                /\ NextOrBreak(a)
           /\ UNCHANGED <<hostVars, loopVars, posted, looks>>

\* dap_req_get_word gives 0 after a buffer error, and 0 is what is written.
WriteNow == /\ pc = "write"
            /\ \E a \in Acks :
                 /\ Word(entry, IF bufError THEN 0 ELSE n, a, data)
                 /\ data' = 0 /\ ack' = a
                 /\ verify' = (a = "OK")
                 /\ NextOrBreak(a)
            /\ UNCHANGED <<hostVars, entry, synced, posted, looks, respVars>>

\* RDBUFF at the end: for the last posted read; its word is added whatever the
\* acknowledge.
Last == /\ pc = "last"
        /\ \E a \in Acks, v \in {data, latched, 0} :
             /\ Word(Rdbuff, 0, a, v)
             /\ data' = v /\ ack' = a
             /\ AddWord(v)
        /\ pc' = "done"
        /\ UNCHANGED <<hostVars, loopVars, posted, count, looks>>

\* RDBUFF at the end: to learn whether the last write went through.
Verify == /\ pc = "verify"
          /\ \E a \in Acks, v \in {data, latched, 0} : Word(Rdbuff, 0, a, v) /\ ack' = a
          /\ data' = data
          /\ pc' = "done"
          /\ UNCHANGED <<hostVars, loopVars, posted, count, looks, respVars>>

Probe == \/ Fetch \/ Leave \/ Retry \/ Pipe \/ Drain \/ MatchPost \/ Match \/ MatchNone
         \/ Mask \/ Post \/ ReadNow \/ WriteNow \/ Last \/ Verify

Next == Start \/ Respond \/ Probe

Spec == Init /\ [][Next]_vars

\* A request is carried out inside the USB interrupt, to its end.
FairSpec == Spec /\ WF_vars(Probe)
-----------------------------------------------------------------------------
TypeOK == /\ pc \in Calls \cup {"idle", "done", "fetch", "mask"}
          /\ port \in Ports
          /\ entries \in Seq(Entries)
          /\ retries \in 0..MaxRetry /\ matchRetries \in 0..MaxRetry
          /\ entry \in Requests
          /\ synced \in BOOLEAN /\ posted \in BOOLEAN /\ verify \in BOOLEAN
          /\ ack \in Acks \cup {"MISMATCH"}
          /\ count \in 0..Len(entries)
          /\ tries \in Nat /\ looks \in Nat
          /\ words \in Seq(Nat) /\ Len(words) <= Capacity
          /\ bufError \in BOOLEAN
          /\ data \in Nat /\ latched \in Nat /\ faulted \in BOOLEAN /\ log \in Seq(Nat)

PlainRead(i) == entries[i].rnw /\ ~entries[i].special
PlainReads(k) == {i \in 1..k : PlainRead(i)}

\* JTAG has one code for OK and FAULT: with a sticky error its OK means nothing.
Trusted == synced /\ ~(port = "jtag" /\ faulted)

Values(s) == {s[i] : i \in 1..Len(s)}

\* The k-th word of a response is what the k-th read of the request read; the
\* word that a failed RDBUFF leaves at the end is the only exception
\* (dap.c:939, dap.c:992, dap.c:1010-1014).
WordsAreRight ==
    Trusted => \A k \in 1..Len(words) :
        \/ pc = "done" /\ ack # "OK" /\ k = Len(words)
        \/ /\ words[k] \in PlainReads(count)
           /\ k = 1 => PlainReads(words[k] - 1) = {}
           /\ k > 1 => PlainReads(words[k] - 1) = PlainReads(words[k - 1])

\* A response that says OK, and that was not cut short by a full buffer, answers
\* every request of the packet and has a word for every read.
OkMeansComplete ==
    pc = "done" /\ ack = "OK" /\ Trusted /\ ~bufError =>
        /\ count = Len(entries)
        /\ Values(words) = PlainReads(count)

\* On SWD a write to an access port that fails late is reported in the response
\* of its own packet, when the last request is a write to the target or a read of
\* an access port (dap.c:1008-1019).  A packet that ends with another request can
\* say OK although a write of it has failed.
CheckedAtTheEnd(e) == IF e.rnw THEN e.ap /\ (e.special => matchRetries > 0)
                      ELSE ~e.special
LateFailuresAreReported ==
    /\ pc = "done" /\ ack = "OK" /\ ~bufError /\ synced
    /\ port = "swd"
    /\ entries # <<>> /\ CheckedAtTheEnd(entries[Len(entries)])
    => ~faulted

\* The target takes the requests in order, and takes a read or a write of the
\* packet at most once, however often it answered WAIT.
EffectsInOrder ==
    Trusted /\ ~bufError =>
        \A i, j \in 1..Len(log) :
            i < j => \/ log[i] < log[j]
                     \/ log[i] = log[j] /\ entries[log[i]].special

\* A compare that ends well looked at a value read by that very request, when its
\* posting read was taken and the compare may look at all (dap.c:947-960).
ComparesItsOwnValue ==
    [][/\ pc = "match" /\ count' = n /\ Trusted /\ matchRetries > 0
       /\ NeedsPostedRead(entry) => n \in Values(log)
       => data' = n]_vars

\* The probe loses its place in the request only where a compare of a posted
\* register follows a posted read: the value to compare with is not consumed.
LosesPlaceOnlyAtMatch ==
    ~synced => \E i \in 1..Len(entries) :
                  /\ i > 1 /\ i <= count + 1
                  /\ entries[i].special /\ NeedsPostedRead(entries[i])
                  /\ NeedsPostedRead(entries[i - 1])

\* Every request gets its response, whatever the target answers.
EveryRequestIsAnswered == pc = "fetch" ~> pc = "done"
=============================================================================

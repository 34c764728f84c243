------------------------------ MODULE SwdWire ------------------------------
(***************************************************************************)
(* The two wires of serial wire debug and the target at their other end.   *)
(* SWDIO is driven by the probe, by the target, or by nobody (it then has  *)
(* the level of its pull resistor); the target looks at it, and goes on,   *)
(* at the rising edge of SWCLK.  The pins are those of hal_config.h; the   *)
(* target is the protocol that dap_swd_operation speaks, not code of the   *)
(* repository.                                                             *)
(***************************************************************************)
EXTENDS Naturals, Sequences, FiniteSets

CONSTANTS Width,      \* the 32 bits of a word
          ResetBits   \* the 50 ones of a line reset

ASSUME WireAssumption == Width \in Nat \ {0} /\ ResetBits \in Nat \ {0}

Levels == {0, 1}
Ones(bits) == Cardinality({k \in DOMAIN bits : bits[k] = 1})
Parity(bits) == Ones(bits) % 2
Times(v, n) == [k \in 1..n |-> v]

\* Acknowledges, lowest bit first; ERROR is the probe's own.
OK == <<1, 0, 0>>
WAIT == <<0, 1, 0>>
FAULT == <<0, 0, 1>>
ERROR == <<0, 0, 0, 1>>
Acks == {OK, WAIT, FAULT}

\* The eight bits of a request: start, APnDP, RnW, A2, A3, parity, stop, park.
Header(req) == <<1>> \o req \o <<Parity(req), 0, 1>>
WellFormed(heard) == heard = Header(SubSeq(heard, 2, 5))
RnW(req) == req[2] = 1

\* What a target does at a clock of its answer: drives 0 or 1, takes the bit on
\* the wire, or neither.
Take == 2
Skip == 3

\* The answer a target has ready, clock by clock: plan is its acknowledge, its
\* word, whether the parity of the word arrives right, its turnaround and whether
\* it keeps a data phase after WAIT and FAULT.
Answer(plan, req) ==
    LET turn == Times(Skip, plan.turn)
        none == Times(IF RnW(req) THEN 0 ELSE Skip, Width + 1)
        word == Append(plan.word, (Parity(plan.word) + plan.noise) % 2)
        data == CASE plan.ack = OK -> IF RnW(req) THEN word ELSE Times(Take, Width + 1)
                  [] plan.ack # OK /\ plan.data_phase -> none
                  [] OTHER -> <<>>
    IN turn \o plan.ack \o (IF RnW(req) THEN data \o turn ELSE turn \o data)

NoTarget == [state |-> "lost", ones |-> 0, heard |-> <<>>, todo |-> <<>>]
IdleTarget == [NoTarget EXCEPT !.state = "idle"]

\* A bit of an answer.
Answering(t) == IF Len(t.todo) = 1 THEN IdleTarget ELSE [t EXCEPT !.todo = Tail(t.todo)]

\* A target that listens hears bit v: a request begins with a 1; one that is not
\* well formed, or is not heard to its end, leaves it deaf to all but a line reset.
Hearing(t, heard, plan) ==
    IF Len(heard) < 8 THEN [t EXCEPT !.state = "header", !.heard = heard]
    ELSE IF WellFormed(heard)
    THEN [NoTarget EXCEPT !.state = "answer", !.todo = Answer(plan, SubSeq(heard, 2, 5))]
    ELSE [NoTarget EXCEPT !.ones = t.ones]
Listening(t, v, plan) ==
    CASE t.state = "lost" \/ (t.state = "idle" /\ v = 0) -> t
      [] t.state = "reset" -> IF v = 0 THEN IdleTarget ELSE t
      [] OTHER -> Hearing(t, Append(t.heard, v), plan)

\* The bus: the pins of the probe (direction, level and clock), the target, and
\* what was read, taken and fought over since the command began.
Drives(t) == t.state = "answer" /\ Head(t.todo) \in Levels
Line(b) == CASE b.dir = "out" -> b.level
             [] b.dir = "in" /\ Drives(b.tgt) -> Head(b.tgt.todo)
             [] OTHER -> b.plan.pull

\* The rising edge of SWCLK.  A line reset is heard in any state in which the
\* target does not drive.
Edge(b) ==
    LET v == Line(b)
        t == b.tgt
        ones == IF v = 0 \/ Drives(t) THEN 0
                ELSE IF t.ones < ResetBits THEN t.ones + 1 ELSE t.ones
        next == IF t.state = "answer" THEN Answering(t) ELSE Listening(t, v, b.plan)
    IN [b EXCEPT !.tgt = IF ones = ResetBits THEN [NoTarget EXCEPT !.state = "reset", !.ones = ones]
                         ELSE [next EXCEPT !.ones = ones],
                 !.taken = IF t.state = "answer" /\ Head(t.todo) = Take THEN Append(b.taken, v) ELSE b.taken,
                 !.clash = b.clash \/ (b.dir = "out" /\ Drives(t))]

\* What the code does with the pins, one after the other.  A bit, 0 or 1, is put on
\* SWDIO and clocked, as dap_swd_write does; Pulse is a clock of dap_swj_run and
\* Sample one of dap_swd_read; the others are HAL_GPIO_SWDIO_TMS_out, _in, _write
\* and HAL_GPIO_SWCLK_TCK_write.
Pulse == 2
Sample == 3
DioOut == 4
DioIn == 5
Dio(v) == 6 + v
Tck(v) == 8 + v

Clocked == Levels \cup {Pulse, Sample}

Move(b, m) ==
    LET c == CASE m \in Levels -> [b EXCEPT !.level = m]
               [] m = Sample -> [b EXCEPT !.read = Append(b.read, Line(b))]
               [] m = DioOut -> [b EXCEPT !.dir = "out"]
               [] m = DioIn -> [b EXCEPT !.dir = "in"]
               [] m \in {Dio(0), Dio(1)} -> [b EXCEPT !.level = m - Dio(0)]
               [] m \in {Tck(0), Tck(1)} -> [b EXCEPT !.clk = m - Tck(0)]
               [] OTHER -> b
    IN IF m \in Clocked \/ (m = Tck(1) /\ b.clk = 0) THEN Edge([c EXCEPT !.clk = 1]) ELSE c

\* A number of moves on the bus, one after the other.
Play(b, moves) ==
    LET bus[k \in 0..Len(moves)] == IF k = 0 THEN b ELSE Move(bus[k - 1], moves[k])
    IN bus[Len(moves)]
=============================================================================

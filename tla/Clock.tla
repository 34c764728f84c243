------------------------------- MODULE Clock -------------------------------
(***************************************************************************)
(* ds3231_util.c: setting the processor's clock from the DS3231 at start   *)
(* and by command (ds3231_sync), and setting the DS3231 (ds3231_date).     *)
(* Each transfer on the I2C bus may fail, and time goes on between two     *)
(* transfers.  A time is a date <<year, month, day>> and one of the times  *)
(* of day of Instants, in order; the registers of the DS3231 hold decimal  *)
(* digits in four bits each, and a day of the week from 1 to 7.            *)
(***************************************************************************)
EXTENDS Integers, Sequences

CONSTANTS
    SetDates,   \* the dates the user sets, of 2000 to 2099
    MaxTicks    \* bound on how often time goes on

ASSUME TicksAssumption == MaxTicks \in Nat

VARIABLES
    chip,          \* the time of the DS3231: [date, at], at an index of Instants
    wday,          \* its register of the day of the week
    osf,           \* bit 7 of its status register: the oscillator has stopped
    asked,         \* the time the user sets (history)
    right,         \* chip is what the user has set, gone on (history)
    write_failed,  \* writing the time has failed (history)
    rtc,           \* the time of the processor
    ticks,
    clock_at,      \* which transfer or call comes next
    buff,          \* the registers read, or to be written
    result,        \* how the last ds3231_sync ended
    ticked         \* time went on while it was setting the processor's (history)

chipVars == <<chip, wday, osf, right>>
clockVars == <<chipVars, asked, write_failed, rtc, ticks, clock_at, buff, result, ticked>>

Instants == <<<<0, 0, 0>>, <<12, 34, 56>>, <<23, 59, 59>>>>
-----------------------------------------------------------------------------
\* The helpers of ds3231_util.c, in 8 and 16 bits (modulo 256 and 65536).

\* Mutant of BcdToBin: ten times the tens are added.
BcdToBinAdds(val) == (val + 10 * (val \div 16)) % 256

BcdToBin(val) == (val - 6 * (val \div 16)) % 256

BinToBcd(val) == (val + 6 * (val \div 10)) % 256

days_in_month == <<31, 28, 31, 30, 31, 30, 31, 31, 30, 31, 30, 0>>

DaysBefore[m \in 1..12] == IF m = 1 THEN 0 ELSE DaysBefore[m - 1] + days_in_month[m - 1]

\* Mutant of DayOfWeek: the leap day counts from January.
DayOfWeekEarlyLeap(year, m, d) ==
    LET y    == IF year >= 2000 THEN year - 2000 ELSE year
        leap == IF y % 4 = 0 THEN 1 ELSE 0
        days == d + DaysBefore[m] + leap + 365 * y + ((y + 3) \div 4) - 1
    IN ((days % 65536) + 6) % 7

DayOfWeek(year, m, d) ==
    LET y    == IF year >= 2000 THEN year - 2000 ELSE year
        leap == IF m > 2 /\ y % 4 = 0 THEN 1 ELSE 0
        days == d + DaysBefore[m] + leap + 365 * y + ((y + 3) \div 4) - 1
    IN ((days % 65536) + 6) % 7
-----------------------------------------------------------------------------
\* The calendar and the DS3231.

LastDay(y, m) == CASE m = 2 -> IF y % 4 = 0 THEN 29 ELSE 28
                   [] m \in {4, 6, 9, 11} -> 30
                   [] OTHER -> 31

\* The dates that the DS3231 knows, in which the user sets it: ds3231_date does not look
\* at what it is given.
Dates == {date \in (2000..2099) \X (1..12) \X (1..31) : date[3] <= LastDay(date[1], date[2])}

ASSUME SetDatesAssumption == SetDates \subseteq Dates

NextDay(date) == LET y == date[1]  m == date[2]  d == date[3]
                 IN IF d < LastDay(y, m) THEN <<y, m, d + 1>>
                    ELSE IF m < 12 THEN <<y, m + 1, 1>>
                    ELSE <<y + 1, 1, 1>>

GoOn(t) == IF t.at < Len(Instants) THEN [t EXCEPT !.at = @ + 1]
           ELSE [date |-> NextDay(t.date), at |-> 1]

Digits(v) == 16 * (v \div 10) + (v % 10)
Decimal(r) == 10 * (r \div 16) + (r % 16)

\* The seven registers, in the order of their addresses from 0 to 6.
Registers == LET hms == Instants[chip.at]
             IN <<Digits(hms[3]), Digits(hms[2]), Digits(hms[1]), wday,
                  Digits(chip.date[3]), Digits(chip.date[2]), Digits(chip.date[1] - 2000)>>

Hms(regs) == <<Decimal(regs[3]), Decimal(regs[2]), Decimal(regs[1])>>
ChipTime(regs) ==
    [date |-> <<2000 + Decimal(regs[7]), Decimal(regs[6]), Decimal(regs[5])>>,
     at   |-> CHOOSE i \in 1..Len(Instants) : Instants[i] = Hms(regs)]

Unset == [i \in 1..7 |-> 0]
Reset2000 == [date |-> <<2000, 1, 1>>, at |-> 1]
Epoch == [date |-> <<1970, 1, 1>>, at |-> 1]

ClockInit == /\ chip = Reset2000 /\ wday = 1 /\ osf = TRUE /\ right = FALSE /\ asked = Epoch
             /\ write_failed = FALSE
             /\ rtc = Epoch
             /\ ticks = 0
             /\ clock_at = "idle" /\ buff = Unset /\ result = "none" /\ ticked = FALSE

\* Time goes on, in both clocks.
Tick == /\ ticks < MaxTicks
        /\ ticks' = ticks + 1
        /\ chip' = GoOn(chip)
        /\ rtc' = GoOn(rtc)
        /\ wday' = IF chip.at = Len(Instants) THEN (wday % 7) + 1 ELSE wday
        /\ ticked' = (ticked \/ clock_at \in {"check", "set_date", "set_time"})
        /\ UNCHANGED <<osf, right, asked, write_failed, clock_at, buff, result>>

\* The processor restarts in the middle of anything, and so does the DS3231 if its
\* battery is empty.
Restart == /\ clock_at' = "idle" /\ result' = "none"
           /\ buff' = Unset /\ ticked' = FALSE /\ asked' = Epoch
           /\ UNCHANGED <<chipVars, write_failed, rtc, ticks>>

PowerLoss == /\ chip' = Reset2000 /\ wday' = 1 /\ osf' = TRUE /\ right' = FALSE
             /\ write_failed' = FALSE
             /\ rtc' = Epoch
             /\ clock_at' = "idle" /\ result' = "none"
             /\ buff' = Unset /\ ticked' = FALSE
             /\ asked' = Epoch
             /\ UNCHANGED ticks
-----------------------------------------------------------------------------
\* ds3231_sync

ClockGoto(from, to) == clock_at = from /\ clock_at' = to

SyncEnds(from, how) == /\ ClockGoto(from, "idle")
                       /\ result' = how
                       /\ buff' = Unset /\ ticked' = FALSE
                       /\ UNCHANGED <<chipVars, asked, write_failed, rtc, ticks>>

\* Control and status register; the 32 kHz output is switched off on the way, and
\* whether that fails is not looked at.
SyncStatus == \/ SyncEnds("idle", "i2c")
              \/ osf /\ SyncEnds("idle", "stopped")
              \/ /\ ~osf
                 /\ ClockGoto("idle", "read")
                 /\ result' = "none" /\ ticked' = FALSE
                 /\ UNCHANGED <<chipVars, asked, write_failed, rtc, ticks, buff>>

SyncRead == \/ SyncEnds("read", "i2c")
            \/ /\ ClockGoto("read", "check")
               /\ buff' = Registers
               /\ UNCHANGED <<chipVars, asked, write_failed, rtc, ticks, result, ticked>>

Year == BcdToBin(buff[7]) + 2000
Mon == BcdToBin(buff[6] % 128)
Mday == BcdToBin(buff[5])
Hour == BcdToBin(buff[3])
Min == BcdToBin(buff[2])
Sec == BcdToBin(buff[1])

OutOfRange == \/ Mon > 11
              \/ Mday = 0 \/ Mday > 31
              \/ Hour > 23 \/ Min > 59 \/ Sec > 60

SyncCheck == \/ SyncEnds("check", "rejected") /\ OutOfRange
             \/ /\ ClockGoto("check", "set_date")
                /\ ~OutOfRange
                /\ UNCHANGED <<chipVars, asked, write_failed, rtc, ticks, buff, result, ticked>>

\* set_date keeps the time of day, set_time the date; each may fail, and the time may go
\* on in between.
SetDate == \/ SyncEnds("set_date", "failed")
           \/ /\ ClockGoto("set_date", "set_time")
              /\ rtc' = [rtc EXCEPT !.date = <<Year, Mon, Mday>>]
              /\ UNCHANGED <<chipVars, asked, write_failed, ticks, buff, result, ticked>>

SetTime == \/ SyncEnds("set_time", "failed")
           \/ /\ ClockGoto("set_time", "idle")
              /\ \E i \in 1..Len(Instants) : /\ Instants[i] = <<Hour, Min, Sec>>
                                             /\ rtc' = [rtc EXCEPT !.at = i]
              /\ result' = "set"
              /\ buff' = Unset
              /\ UNCHANGED <<chipVars, asked, write_failed, ticks, ticked>>

Sync == SyncStatus \/ SyncRead \/ SyncCheck \/ SetDate \/ SetTime
-----------------------------------------------------------------------------
\* ds3231_date with arguments

DateCommand(date, i) ==
    LET hms == Instants[i]
    IN /\ ClockGoto("idle", "write")
       /\ buff' = <<BinToBcd(hms[3]), BinToBcd(hms[2]), BinToBcd(hms[1]),
                    BinToBcd(DayOfWeek(date[1], date[2], date[3]) + 1),
                    BinToBcd(date[3]), BinToBcd(date[2]), BinToBcd(date[1] % 100)>>
       /\ asked' = [date |-> date, at |-> i]
       /\ result' = "none" /\ ticked' = FALSE
       /\ UNCHANGED <<chipVars, write_failed, rtc, ticks>>

\* The time is written, or not: the result is not looked at.
WriteTime == /\ ClockGoto("write", "status")
             /\ \/ /\ chip' = ChipTime(buff) /\ wday' = buff[4]
                   /\ right' = (chip' = asked)
                   /\ UNCHANGED write_failed
                \/ write_failed' = TRUE /\ UNCHANGED <<chip, wday, right>>
             /\ asked' = Epoch
             /\ UNCHANGED <<osf, rtc, ticks, buff, result, ticked>>

\* The status is read, and written without its bit 7 if that is set; each may fail.
ClearOsf == /\ ClockGoto("status", "idle")
            /\ osf' \in {FALSE, osf}
            /\ buff' = Unset
            /\ UNCHANGED <<chip, wday, right, asked, write_failed, rtc, ticks, result, ticked>>

DateSet == (\E date \in SetDates, i \in 1..Len(Instants) : DateCommand(date, i))
           \/ WriteTime \/ ClearOsf

ClockNext == Tick \/ Restart \/ PowerLoss \/ Sync \/ DateSet

ClockSpec == ClockInit /\ [][ClockNext]_clockVars
-----------------------------------------------------------------------------
\* The day of the week by Zeller's congruence, Saturday being 0: the reference.
Zeller(y, m, d) == LET mm == IF m < 3 THEN m + 12 ELSE m
                       yy == IF m < 3 THEN y - 1 ELSE y
                   IN (d + ((13 * (mm + 1)) \div 5) + yy + (yy \div 4) - (yy \div 100) + (yy \div 400)) % 7

\* After a sync the processor's clock is that of the DS3231, and stays so, unless time
\* went on between the reading and the setting: a midnight between set_date and
\* set_time, which sets the day wrong, is the worst case.  And ds3231_sync refuses the
\* time of a running clock only in December.
SyncIsRight == /\ result = "set" /\ ~ticked => rtc = chip
               /\ clock_at = "check" /\ OutOfRange => Decimal(buff[6]) = 12

\* A clock that does not report a stop shows what the user has set, unless writing the
\* time has failed, which ds3231_date does not look at; and it shows the right day of
\* the week, however long ago it was set.
ClockIsTrusted ==
    /\ ~osf => right \/ write_failed
    /\ right => wday = ((Zeller(chip.date[1], chip.date[2], chip.date[3]) + 6) % 7) + 1
=============================================================================

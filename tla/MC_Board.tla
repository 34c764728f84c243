------------------------------ MODULE MC_Board ------------------------------
(***************************************************************************)
(* Components that share no state with one another, checked in one run:    *)
(* each behaviour is one of one of them, and the others stay as they       *)
(* start.  Interleaving them would add states and no behaviour.            *)
(***************************************************************************)
EXTENDS AuxUart, CanLogger, SdCard, Clock, Backlight, GetcharTimeout, SpiDma

CONSTANTS init_thread, change_thread, gdb_thread

VARIABLE part    \* the component that runs

MCConsumers == {gdb_thread}
MCMounters == {init_thread, change_thread}
MCDates == {<<2000, 2, 28>>, <<2023, 11, 30>>, <<2024, 12, 31>>, <<2025, 3, 1>>}
MCFrames == {[ext |-> FALSE, rtr |-> FALSE, id |-> 2023, data |-> <<171, 5>>],
             [ext |-> TRUE, rtr |-> FALSE, id |-> 305419896, data |-> <<>>],
             [ext |-> TRUE, rtr |-> TRUE, id |-> 16, data |-> <<1>>]}

BoardInit == /\ part \in {"uart", "can", "sd", "clock", "light", "gdb", "spi"}
             /\ UartInit /\ CanInit /\ ClockInit /\ LightInit /\ GdbInit /\ SpiInit
             /\ SdInit /\ (part # "sd" => ~card)

Only(p) == part = p /\ UNCHANGED part

BoardNext ==
    \/ /\ Only("uart") /\ UartNext
       /\ UNCHANGED <<canVars, sdVars, clockVars, lightVars, portVars, spiVars>>
    \/ /\ Only("can") /\ CanNext
       /\ UNCHANGED <<uartVars, sdVars, clockVars, lightVars, portVars, spiVars>>
    \/ /\ Only("sd") /\ SdNext
       /\ UNCHANGED <<uartVars, canVars, clockVars, lightVars, portVars, spiVars>>
    \/ /\ Only("clock") /\ ClockNext
       /\ UNCHANGED <<uartVars, canVars, sdVars, lightVars, portVars, spiVars>>
    \/ /\ Only("light") /\ LightNext
       /\ UNCHANGED <<uartVars, canVars, sdVars, clockVars, portVars, spiVars>>
    \/ /\ Only("gdb") /\ GdbNext
       /\ UNCHANGED <<uartVars, canVars, sdVars, clockVars, lightVars, spiVars>>
    \/ /\ Only("spi") /\ SpiNext
       /\ UNCHANGED <<uartVars, canVars, sdVars, clockVars, lightVars, portVars>>

\* RT-Thread schedules each thread that can go on, and the timer thread.
BoardFairness ==
    /\ WF_uartVars(part = "uart" /\ (UartBoot \/ UartThread))
    /\ WF_sdVars(part = "sd" /\ (TimerExpires \/ TimerStop))
    /\ \A m \in Mounters : WF_sdVars(part = "sd" /\ Mounter(m))
    /\ WF_lightVars(part = "light" /\ AdcThread)

BoardSpec == /\ BoardInit
             /\ [][BoardNext]_<<part, uartVars, canVars, sdVars, clockVars, lightVars,
                              portVars, spiVars>>
             /\ BoardFairness
=============================================================================

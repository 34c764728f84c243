------------------------------ MODULE Display ------------------------------
(***************************************************************************)
(* The way of pixels to the panel (lvgl_display.c): the LVGL thread draws  *)
(* an area into one of two buffers, writes commands to the panel itself    *)
(* (lcd_send_cmd, lcd_send_color) and leaves the pixels to a second thread *)
(* (lcd_send_color_thread) through a queue.  Both use one SPI bus, whose   *)
(* words are 8 bits wide for commands and 16 for pixels, and one pin that  *)
(* tells commands from data.  LVGL is modelled from how it uses the two    *)
(* callbacks; the threads may run in any order, whatever their priorities. *)
(***************************************************************************)
EXTENDS Naturals, Sequences

CONSTANTS MaxAreas,    \* bound on the areas drawn
          QueueSize    \* the length of pixel_mq

ASSUME DisplayAssumption == MaxAreas \in Nat /\ QueueSize \in Nat \ {0}

Buffers == {1, 2}

VARIABLES
    spi,        \* spi_dev was found
    lv,         \* where the LVGL thread is
    buf,        \* the area in each buffer, 0 if it is being drawn
    cur,        \* the buffer LVGL draws into
    drawn,      \* areas drawn so far
    flushing,   \* LVGL waits for lv_display_flush_ready
    pixel_mq,   \* buffers whose pixels are to be sent
    pump,       \* where the thread of the pixels is
    pixels,     \* its message
    width, dc,  \* the width of a word on the bus, the data/command pin
    shown       \* the areas that have been sent

lvVars == <<lv, buf, cur, drawn, flushing>>
pumpVars == <<pump, pixels, shown>>
wires == <<width, dc>>
displayVars == <<spi, lvVars, pixel_mq, pumpVars, wires>>

DisplayInit == /\ spi \in BOOLEAN
               /\ lv = "events"
               /\ buf = [b \in Buffers |-> 0] /\ cur = 1 /\ drawn = 0
               /\ flushing = FALSE
               /\ pixel_mq = <<>>
               /\ pump = "wait" /\ pixels = 0
               /\ width = 8 /\ dc = "data"
               /\ shown = <<>>
-----------------------------------------------------------------------------
\* lv_task_handler finds an area to draw, or nothing.
Draw == /\ lv = "task" /\ drawn < MaxAreas
        /\ lv' = "draw"
        /\ buf' = [buf EXCEPT ![cur] = 0]
        /\ UNCHANGED <<spi, cur, drawn, flushing, pixel_mq, pumpVars, wires>>
TaskDone == /\ lv = "task"
            /\ lv' = "events"
            /\ UNCHANGED <<spi, buf, cur, drawn, flushing, pixel_mq, pumpVars, wires>>

\* The area is drawn; once the area before has been sent its pixels are flushed,
\* with lcd_send_cmd for the columns and rows, which does nothing without the bus.
Flush ==
    /\ lv = "draw" /\ ~flushing
    /\ flushing' = TRUE
    /\ drawn' = drawn + 1 /\ buf' = [buf EXCEPT ![cur] = drawn + 1]
    /\ lv' = IF spi THEN "column" ELSE "sent"
    /\ dc' = IF spi THEN "command" ELSE dc
    /\ UNCHANGED <<spi, cur, pixel_mq, pumpVars, width>>

\* lcd_send_cmd: the command with DC low, its parameters with DC high.
Params(from, to) == /\ lv = from /\ lv' = to
                    /\ dc' = "data"
                    /\ UNCHANGED <<spi, buf, cur, drawn, flushing, pixel_mq, pumpVars, width>>
Command(from, to) == /\ lv = from /\ lv' = to
                     /\ dc' = "command"
                     /\ UNCHANGED <<spi, buf, cur, drawn, flushing, pixel_mq, pumpVars, width>>

\* Mutant of QueuePixels: the buffer is given back at once.
QueueAndGiveBack == /\ lv = "pixels" /\ lv' = "sent"
                    /\ dc' = "data"
                    /\ flushing' = FALSE
                    /\ pixel_mq' = IF Len(pixel_mq) < QueueSize THEN Append(pixel_mq, cur) ELSE pixel_mq
                    /\ UNCHANGED <<spi, buf, cur, drawn, pumpVars, width>>

\* The end of lcd_send_color: the pixels go to the queue.
QueuePixels == /\ lv = "pixels" /\ lv' = "sent"
               /\ dc' = "data"
               /\ pixel_mq' = IF Len(pixel_mq) < QueueSize THEN Append(pixel_mq, cur) ELSE pixel_mq
               /\ UNCHANGED <<spi, buf, cur, drawn, flushing, pumpVars, width>>

\* LVGL goes on with the other buffer.
Swap == /\ lv = "sent" /\ lv' = "task"
        /\ cur' = 3 - cur
        /\ UNCHANGED <<spi, buf, drawn, flushing, pixel_mq, pumpVars, wires>>

\* The flush callback of the panel: columns, rows, pixels.
FlushSteps == \/ Params("column", "columns") \/ Command("columns", "row")
              \/ Params("row", "rows") \/ Command("rows", "pixels")
              \/ QueuePixels
-----------------------------------------------------------------------------
\* lcd_send_color_thread.
Receive == /\ pump = "wait" /\ pixel_mq # <<>>
           /\ pixels' = Head(pixel_mq) /\ pixel_mq' = Tail(pixel_mq)
           /\ pump' = "received"
           /\ UNCHANGED <<spi, lvVars, shown, wires>>
Widen == /\ pump = "received" /\ pump' = "send"
         /\ width' = 16
         /\ UNCHANGED <<spi, lvVars, pixel_mq, pixels, shown, dc>>
Sent == /\ pump = "send" /\ pump' = "sent"
        /\ shown' = Append(shown, buf[pixels])
        /\ UNCHANGED <<spi, lvVars, pixel_mq, pixels, wires>>

\* Mutant of Narrow: the bus stays as it is.
NarrowNot == /\ pump = "sent" /\ pump' = "ready"
             /\ UNCHANGED <<spi, lvVars, pixel_mq, pixels, shown, wires>>

Narrow == /\ pump = "sent" /\ pump' = "ready"
          /\ width' = 8
          /\ UNCHANGED <<spi, lvVars, pixel_mq, pixels, shown, dc>>

\* Mutant of FlushReady: LVGL is not told.
FlushNotReady == /\ pump = "ready" /\ pump' = "wait"
                 /\ UNCHANGED <<spi, lvVars, pixel_mq, pixels, shown, wires>>

FlushReady == /\ pump = "ready" /\ pump' = "wait"
              /\ flushing' = FALSE
              /\ UNCHANGED <<spi, lv, buf, cur, drawn, pixel_mq, pixels, shown, wires>>

PumpNext == Receive \/ Widen \/ Sent \/ Narrow \/ FlushReady
DrawNext == Draw \/ TaskDone \/ Flush \/ FlushSteps \/ Swap
-----------------------------------------------------------------------------
DisplayTypeOK == /\ spi \in BOOLEAN /\ flushing \in BOOLEAN
                 /\ lv \in {"events", "task", "draw", "column", "columns", "row", "rows", "pixels", "sent"}
                 /\ buf \in [Buffers -> Nat] /\ cur \in Buffers /\ drawn \in 0..MaxAreas
                 /\ pixel_mq \in Seq(Buffers) /\ Len(pixel_mq) <= QueueSize
                 /\ pump \in {"wait", "received", "send", "sent", "ready"}
                 /\ pixels \in Buffers \cup {0}
                 /\ width \in {8, 16} /\ dc \in {"data", "command"}
                 /\ shown \in Seq(Nat)

\* What is on the bus is what the panel takes it for: commands and parameters go
\* out in words of 8 bits while no pixels do, with DC low for a command; pixels go
\* out in words of 16 bits with DC high, although no lock of the two threads spans
\* the width, the pin and the data (lvgl_display.c:145-184).
Commanding == lv \in {"column", "row", "rows", "columns", "pixels"}
WireIsRight == /\ Commanding => width = 8 /\ pump # "send"
               /\ lv \in {"column", "row", "pixels"} => dc = "command"
               /\ lv \in {"columns", "rows"} \/ pump = "send" => dc = "data"
               /\ pump = "send" => width = 16

\* The panel gets every area, in the order drawn, as it was drawn: LVGL is never
\* back in a buffer whose pixels are still to be sent, and no message is lost in
\* the queue (lvgl_display.c:149-164).
AreasInOrder == \A k \in DOMAIN shown : shown[k] = k
=============================================================================

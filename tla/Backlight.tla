------------------------------ MODULE Backlight ------------------------------
(***************************************************************************)
(* backlight.c: the thread that reads the light sensor twice a second,     *)
(* filters it in integers, and sets the duty cycle of the display's led,   *)
(* or 0 when the display has not been touched for a while.                 *)
(***************************************************************************)
EXTENDS Integers

CONSTANTS
    AdcRange,   \* the converter gives 0 .. AdcRange - 1; 4096
    Period,     \* pwm_period; 65535
    Wrap        \* where a rt_uint32_t wraps; 2^32

ASSUME AdcAssumption == AdcRange \in Nat \ {0}
ASSUME PeriodAssumption == Period \in Nat
ASSUME WidthAssumption == Wrap \in Nat /\ 8 * AdcRange <= Wrap /\ Period * AdcRange <= Wrap

VARIABLES
    light,        \* what the converter would give now
    awake,        \* lv_disp_get_inactive_time is at most SLEEP_TIME
    lv_display,   \* LVGL has a display
    adc_at,       \* where adc_read_func is
    brightness,
    duty          \* the compare value of the timer's channel

lightVars == <<light, awake, lv_display, adc_at, brightness, duty>>

Light == 0..AdcRange - 1

LightInit == /\ light = 0
             /\ awake = TRUE
             /\ lv_display = FALSE
             /\ adc_at = "find_adc"
             /\ brightness = 0
             /\ duty = 0

\* It gets lighter or darker; the display is touched, or not for SLEEP_TIME seconds;
\* LVGL creates the display.
LightChanges == /\ light' \in Light
                /\ UNCHANGED <<awake, lv_display, adc_at, brightness, duty>>

Activity == /\ awake' = ~awake
            /\ UNCHANGED <<light, lv_display, adc_at, brightness, duty>>

CreateDisplay == /\ ~lv_display
                 /\ lv_display' = TRUE
                 /\ UNCHANGED <<light, awake, adc_at, brightness, duty>>

AdcGoto(from, to) == adc_at = from /\ adc_at' = to

\* The converter is missing, or the filter starts with its first value.
FindAdc == /\ \/ AdcGoto("find_adc", "off") /\ UNCHANGED brightness
              \/ AdcGoto("find_adc", "find_pwm") /\ brightness' = light
           /\ UNCHANGED <<light, awake, lv_display, duty>>

FindPwm == /\ \/ AdcGoto("find_pwm", "off") /\ UNCHANGED duty
              \/ AdcGoto("find_pwm", "wait_display") /\ duty' = 0
           /\ UNCHANGED <<light, awake, lv_display, brightness>>

WaitDisplay == /\ lv_display
               /\ AdcGoto("wait_display", "loop")
               /\ UNCHANGED <<light, awake, lv_display, brightness, duty>>

\* Mutant of Filtered: each term is shifted on its own.
FilteredByParts(b, s) == b - (b \div 8) + (s \div 8)

\* The low pass filter, in 32 bits: b times 8, minus b, plus the sensor, shifted by
\* LOWPASS_BETA = 3.
Filtered(b, s) == ((((8 * b) % Wrap) - b + s) % Wrap) \div 8

\* The product with the period, in 32 bits, divided by 4096 and limited.
DutyCycle(b) == LET scaled == ((Period * b) % Wrap) \div AdcRange
                IN IF scaled > Period THEN Period ELSE scaled

Update == /\ AdcGoto("loop", "loop")
          /\ brightness' = Filtered(brightness, light)
          /\ duty' = IF awake THEN DutyCycle(brightness') ELSE 0
          /\ UNCHANGED <<light, awake, lv_display>>

AdcThread == FindAdc \/ FindPwm \/ WaitDisplay \/ Update

LightNext == LightChanges \/ Activity \/ CreateDisplay \/ AdcThread

LightSpec == LightInit /\ [][LightNext]_lightVars
-----------------------------------------------------------------------------
LightTypeOK == /\ light \in Light
               /\ brightness \in Light
               /\ duty \in 0..Period
               /\ {awake, lv_display} \subseteq BOOLEAN
               /\ adc_at \in {"find_adc", "find_pwm", "wait_display", "loop", "off"}

\* The led follows the sensor: once neither the light nor the activity changes, the
\* filtered value ends at most 7 below the sensor, where the shift keeps it, and not
\* above it, whatever it was before; the led of a display that sleeps is dark.
Settled == /\ brightness <= light /\ light - brightness < 8
           /\ IF awake
              THEN /\ duty * AdcRange <= Period * light
                   /\ duty * AdcRange > Period * (light - 7) - AdcRange
              ELSE duty = 0

LedFollowsLight ==
    <>[][UNCHANGED <<light, awake>>]_lightVars /\ <>[](adc_at = "loop") => <>[]Settled
=============================================================================

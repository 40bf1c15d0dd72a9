------------------------------- MODULE MCSensors -------------------------------
(***************************************************************************)
(* The sensors as TLC runs them: the program's own two calls, and each of  *)
(* them beside calls of the headers that write a register, on readings at  *)
(* the ends of the temperature range.                                      *)
(***************************************************************************)
EXTENDS Sensors

Fn(name, args) == [name : {name}, arg : args]

MCPrograms ==
  { [ temp  |-> Fn("currentTemperature", {UNIT_FAHRENHEIT}),
      light |-> Fn("isDark", {0}) ],
    [ temp  |-> Fn("currentTemperature", {UNIT_CELCIUS}) \cup Fn("enableShutdown", {1}),
      light |-> Fn("configTiming", {3}) ],
    [ temp  |-> Fn("configConvRate", {1}),
      light |-> Fn("configTiming", {1, 3}) ] }

\* -128 and 127.9375 degrees Celsius.
MCTempReadings == {32768, 32752}

\* A bright light.
MCLightReadings == {<<4660, 1024>>}
================================================================================

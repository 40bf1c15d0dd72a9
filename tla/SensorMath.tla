------------------------------ MODULE SensorMath ------------------------------
(***************************************************************************)
(* The arithmetic of the two drivers: src/temp_driver.c, which turns a word *)
(* of the TMP102 into whole degrees, and src/light_driver.c, which turns    *)
(* the two channels of the APDS-9301 into a brightness.                     *)
(*                                                                         *)
(* The code computes in float and double.  All intermediate results of the *)
(* temperature are exact; the brightness is kept in units of 10^-5 lux,    *)
(* where its formulas are integers, and differs from the float by less     *)
(* than 0.001 lux.  The float quotients 0.61 and 0.8 lie above the         *)
(* constants they are compared with, 0.5 is exact and 1.3 lies below.      *)
(***************************************************************************)
EXTENDS Integers

Byte  == 0..255
Word  == 0..65535
Int16 == -32768..32767

Signed(w) == IF w < 32768 THEN w ELSE w - 65536

\* Wrong variant: a negative number keeps its sign when its bytes are read.
Unsigned_wide(n) == n

Unsigned(n) == n % 65536

\* A 16-bit variable whose bytes are b1 and, at the next address, b2.
InMemory(b1, b2) == b1 + 256 * b2

\* C's conversion of a quotient to an integer drops the fraction.
Truncated(n, d) == IF n < 0 THEN -((-n) \div d) ELSE n \div d

\* Wrong variant: the bits of a negative reading are inverted but not
\* incremented.
tempConversion_onesComplement(temp) ==
  LET reading == temp \div 16
  IN  IF reading < 0 THEN -((-reading - 1) \div 16) ELSE reading \div 16

\* temp >> 4 keeps the sign; the magnitude is multiplied by 1/16 and truncated.
tempConversion(temp) == Truncated(temp \div 16, 16)

\* The bits of w from the bit of weight low on, `size' values in all, become v:
\* config &= ~mask; config |= v * low;
SetField(w, low, size, v) == w + low * (v - ((w \div low) % size))

UNIT_CELCIUS    == 0
UNIT_FAHRENHEIT == 1
UNIT_KELVIN     == 2
Unit == {UNIT_CELCIUS, UNIT_FAHRENHEIT, UNIT_KELVIN}

InUnit(units, celsius) ==
  IF units = UNIT_FAHRENHEIT THEN Truncated(9 * celsius + 160, 5)
  ELSE IF units = UNIT_KELVIN THEN celsius + 273
  ELSE celsius

\* What currentTemperature leaves in *temp, given what readTemperature found
\* there: the register if it could be read, else what the caller had left.
Reported(units, temp) == InUnit(units, tempConversion(temp))

\* CH1/CH0 selects the formula.  A CH0 of 0 makes it infinite or not a number;
\* either fails every comparison.
lightSensorLux(CH0, CH1) ==
  IF CH0 = 0 THEN 0
  ELSE IF 2 * CH1 <= CH0        THEN 3040 * CH0 - 8680 * CH1
  ELSE IF 100 * CH1 < 61 * CH0  THEN 2240 * CH0 - 3100 * CH1
  ELSE IF 5 * CH1 < 4 * CH0     THEN 1280 * CH0 - 1530 * CH1
  ELSE IF 10 * CH1 <= 13 * CH0  THEN 146 * CH0 - 112 * CH1
  ELSE 0

FiftyLux == 5000000

Dark(intensity)   == intensity < FiftyLux
Bright(intensity) == intensity > FiftyLux
===============================================================================

----------------------------- MODULE SensorProofs -----------------------------
(***************************************************************************)
(* Theorems about the drivers and their sensors, for all programs and all  *)
(* readings the assumptions of Sensors admit.                              *)
(*                                                                         *)
(* The inductive invariant SensorInv types the state (TypeInv), keeps what *)
(* a failed reading will be taken for (ReadingOK) and says which channel   *)
(* of the light sensor is lost (MeasuringOK).                              *)
(*                                                                         *)
(* CleanInv, for a driver that has the bus to itself, adds that a read     *)
(* follows the write that selects its register (SelectedOK), that the      *)
(* pointer of the sensor is then there (PointedOK), that what a modifying  *)
(* call has read is still the configuration (ModifyingOK), and that a      *)
(* temperature has twelve bits (MeasuredOK).                               *)
(***************************************************************************)
EXTENDS Sensors, TLAPS, SequenceTheorems

(***************************************************************************)
(* What the operators of SensorMath and Sensors return: each fact holds of *)
(* a single state or a single step.                                        *)
(***************************************************************************)
\* Word, Byte and Int16 as bounds: what the arithmetic below works with.
LEMMA WordIs == \A n : n \in Word <=> n \in Int /\ 0 <= n /\ n <= 65535
<1> DEFINE lo == 0
           hi == 65535
<1>1. Word = lo..hi
  BY DEF Word
<1>2. lo \in Int /\ hi \in Int
  OBVIOUS
<1> HIDE DEF lo, hi
<1>3. \A n : n \in Word <=> n \in Int /\ lo <= n /\ n <= hi
  BY <1>1, <1>2
<1> QED BY <1>3 DEF lo, hi

\* The same of Byte.
LEMMA ByteIs == \A n : n \in Byte <=> n \in Int /\ 0 <= n /\ n <= 255
<1> DEFINE lo == 0
           hi == 255
<1>1. Byte = lo..hi
  BY DEF Byte
<1>2. lo \in Int /\ hi \in Int
  OBVIOUS
<1> HIDE DEF lo, hi
<1>3. \A n : n \in Byte <=> n \in Int /\ lo <= n /\ n <= hi
  BY <1>1, <1>2
<1> QED BY <1>3 DEF lo, hi

\* The same of Int16.
LEMMA Int16Is == \A n : n \in Int16 <=> n \in Int /\ -32768 <= n /\ n <= 32767
<1> DEFINE lo == -32768
           hi == 32767
<1>1. Int16 = lo..hi
  BY DEF Int16
<1>2. lo \in Int /\ hi \in Int
  OBVIOUS
<1> HIDE DEF lo, hi
<1>3. \A n : n \in Int16 <=> n \in Int /\ lo <= n /\ n <= hi
  BY <1>1, <1>2
<1> QED BY <1>3 DEF lo, hi

\* Two bytes make a word (temp_driver.c:245, light_driver.c:199).
LEMMA InMemoryWord ==
  ASSUME NEW b1 \in Byte, NEW b2 \in Byte
  PROVE  InMemory(b1, b2) \in Word
BY WordIs, ByteIs DEF InMemory

\* A word falls into two bytes.
LEMMA WordBytes ==
  ASSUME NEW w \in Word
  PROVE  w \div 256 \in Byte /\ w % 256 \in Byte
BY WordIs, ByteIs

\* Setting the shutdown bit leaves a word a word (temp_driver.c:305).
LEMMA SetShutdown ==
  ASSUME NEW w \in Word, NEW v \in 0..1
  PROVE  SetField(w, 256, 2, v) \in Word
BY WordIs DEF SetField

\* Setting the conversion rate leaves a word a word (temp_driver.c:319).
LEMMA SetRate ==
  ASSUME NEW w \in Word, NEW v \in 0..3
  PROVE  SetField(w, 64, 4, v) \in Word
BY WordIs DEF SetField

\* A 16-bit number survives being read as a word and back.
LEMMA SignedUnsigned ==
  ASSUME NEW n \in Int16
  PROVE  Unsigned(n) \in Word /\ Signed(Unsigned(n)) = n
BY Int16Is, WordIs DEF Signed, Unsigned

\* A word read as a signed number is one of 16 bits.
LEMMA SignedInt16 ==
  ASSUME NEW w \in Word
  PROVE  Signed(w) \in Int16
BY Int16Is, WordIs DEF Signed

\* A reading of the TMP102 is between -128 and 127 degrees (temp_driver.c:154).
LEMMA ConversionBounds ==
  ASSUME NEW t \in Int16
  PROVE  tempConversion(t) \in Int /\ -128 <= tempConversion(t) /\ tempConversion(t) <= 127
BY Int16Is DEF tempConversion, Truncated

\* A temperature that was already converted, taken for a reading once more,
\* is 0 or 1 degree (temp_driver.c:272).
LEMMA ConversionOfConverted ==
  ASSUME NEW t \in Int, -240 <= t, t < 512
  PROVE  tempConversion(t) \in {0, 1} /\ (t < 256 => tempConversion(t) = 0)
BY DEF tempConversion, Truncated

\* A call of d is one of the functions of its header.
CallOf(d) == IF d = "temp" THEN TempCall ELSE LightCall

\* What one write puts on the bus.
Message == {bytes \in Seq(Byte) : Len(bytes) \in 1..3}

\* The transfers a call c of d may make.
TransferOf(d, c) ==
       {Put(bytes) : bytes \in Message}
  \cup {Get(n, variable) : n \in 1..2, variable \in 1..2}
  \cup {x \in {PutBack} : d = "temp" /\ c.name \in Modifies}

\* The two variables of a call stay words when one of them is read into.
LEMMA PairUpdated ==
  ASSUME NEW p \in Word \X Word, NEW i \in 1..2, NEW w \in Word
  PROVE  [p EXCEPT ![i] = w] \in Word \X Word
OBVIOUS

\* One, two or three bytes make a message.
LEMMA MessageOfBytes ==
  /\ \A a \in Byte : <<a>> \in Message
  /\ \A a \in Byte, b \in Byte : <<a, b>> \in Message
  /\ \A a \in Byte, b \in Byte, c \in Byte : <<a, b, c>> \in Message
BY DEF Message

\* Each function of the temperature driver is about one of the four registers.
LEMMA TempRegisters == \A c \in TempCall : TempRegister[c.name] \in 0..3
BY DEF TempCall, TempRegister

\* The functions of the light driver that name a register name one of 0 to 10.
LEMMA LightRegisters ==
  \A c \in LightCall \ [name : Measures, arg : {0}] : LightRegister[c.name] \in 0..10
BY DEF LightCall, LightRegister, Measures

\* A message may be put on the bus by any call.
LEMMA PutTyped ==
  ASSUME NEW bytes \in Message, NEW d, NEW c
  PROVE  Put(bytes) \in TransferOf(d, c)
BY DEF TransferOf

\* One or two bytes may be read by any call.
LEMMA GetTyped ==
  ASSUME NEW n \in 1..2, NEW variable \in 1..2, NEW d, NEW c
  PROVE  Get(n, variable) \in TransferOf(d, c)
BY DEF TransferOf

\* What is written to a register of the TMP102 is a word.
LEMMA WordArgument ==
  ASSUME NEW c \in TempCall, c.name \in {"writeConfig", "writeTempLow", "writeTempHigh"}
  PROVE  c.arg \in Word
BY DEF TempCall

\* The argument of a call to the light driver fits in a byte.
LEMMA LightArgument ==
  ASSUME NEW c \in LightCall
  PROVE  c.arg \in Byte
<1>1. 0 \in Byte /\ 1 \in Byte
  BY ByteIs
<1> QED BY <1>1 DEF LightCall

\* The transfers of a function of temp_driver.c are messages of one to three bytes
\* and reads of two.
LEMMA TempTransfersTyped ==
  ASSUME NEW c \in TempCall
  PROVE  TempTransfers(c) \in Seq(TransferOf("temp", c))
<1> DEFINE a == TempRegister[c.name]
<1>1. a \in 0..3
  BY TempRegisters
<1> HIDE DEF a
<1>2. a \in Byte
  BY <1>1, ByteIs
<1>3. <<a>> \in Message
  BY <1>2, MessageOfBytes
<1> DEFINE S == TransferOf("temp", c)
<1>4. Put(<<a>>) \in S /\ Get(2, 1) \in S
  BY <1>3, PutTyped, GetTyped
<1>5. readNTempRegisters(a) \in Seq(S)
  <2> HIDE DEF S
  <2> QED BY <1>4 DEF readNTempRegisters
<1>6. ASSUME c.name \in Modifies PROVE Append(readNTempRegisters(a), PutBack) \in Seq(S)
  <2>1. PutBack \in S
    BY <1>6 DEF TransferOf
  <2> HIDE DEF S
  <2> QED BY <1>5, <2>1
<1>7. ASSUME c.name \in {"writeConfig", "writeTempLow", "writeTempHigh"}
      PROVE  writeNTempRegisters(a, c.arg) \in Seq(S)
  <2>1. c.arg \in Word
    BY <1>7, WordArgument
  <2>2. c.arg \div 256 \in Byte /\ c.arg % 256 \in Byte
    BY <2>1, WordBytes
  <2>3. <<a, c.arg \div 256, c.arg % 256>> \in Message
    BY <2>2, <1>2, MessageOfBytes
  <2>4. Put(<<a, c.arg \div 256, c.arg % 256>>) \in S
    BY <2>3 DEF TransferOf
  <2> HIDE DEF S
  <2> QED BY <2>4 DEF writeNTempRegisters
<1> QED BY <1>5, <1>6, <1>7 DEF TempTransfers, a

\* The transfers of a function of light_driver.c are messages of one or two bytes
\* and reads of one or two.
LEMMA LightTransfersTyped ==
  ASSUME NEW c \in LightCall
  PROVE  LightTransfers(c) \in Seq(TransferOf("light", c))
<1> DEFINE a == LightRegister[c.name]
           S == TransferOf("light", c)
<1>1. \A n \in Byte : Put(<<n>>) \in S /\ \A b \in Byte : Put(<<n, b>>) \in S
  <2>1. ASSUME NEW n \in Byte PROVE Put(<<n>>) \in S
    BY MessageOfBytes, PutTyped
  <2>2. ASSUME NEW n \in Byte, NEW b \in Byte PROVE Put(<<n, b>>) \in S
    BY MessageOfBytes, PutTyped
  <2> QED BY <2>1, <2>2
<1>2. Get(1, 1) \in S /\ Get(2, 1) \in S /\ Get(2, 2) \in S
  BY GetTyped
<1>3. CASE c.name \in Measures
  <2>1. 172 \in Byte /\ 174 \in Byte
    BY ByteIs
  <2>2. Put(<<172>>) \in S /\ Put(<<174>>) \in S
    BY <1>1, <2>1
  <2> HIDE DEF S
  <2>3. /\ readNLightRegisters(DATA0LOW, 1) \in Seq(S)
        /\ readNLightRegisters(DATA1LOW, 2) \in Seq(S)
    BY <1>2, <2>2
      DEF readNLightRegisters, DATA0LOW, DATA1LOW, BIT_CMD_SELECT_REG, BIT_WORD_CMD
  <2>4. readNLightRegisters(DATA0LOW, 1) \o readNLightRegisters(DATA1LOW, 2) \in Seq(S)
    BY <2>3
  <2>5. LightTransfers(c) = readNLightRegisters(DATA0LOW, 1) \o readNLightRegisters(DATA1LOW, 2)
    BY <1>3, Zenon DEF LightTransfers
  <2> QED BY <2>4, <2>5 DEF S
<1>4. CASE c.name \notin Measures
  <2>1. a \in 0..10
    BY <1>4, LightRegisters DEF LightCall
  <2> HIDE DEF a
  <2>2. 128 + a \in Byte /\ c.arg \in Byte
    BY <2>1, ByteIs, LightArgument
  <2>3. Put(<<128 + a>>) \in S /\ Put(<<128 + a, c.arg>>) \in S
    BY <1>1, <2>2
  <2> HIDE DEF S
  <2>4. readLightRegisters(a) \in Seq(S) /\ writeNLightRegisters(a, c.arg) \in Seq(S)
    BY <1>2, <2>3 DEF readLightRegisters, writeNLightRegisters, BIT_CMD_SELECT_REG
  <2>5. <<>> \in Seq(S)
    OBVIOUS
  <2>6. LightTransfers(c) \in {<<>>, readLightRegisters(a), writeNLightRegisters(a, c.arg)}
    BY <1>4, Zenon DEF LightTransfers, a
  <2> QED BY <2>4, <2>5, <2>6 DEF S
<1> QED BY <1>3, <1>4

\* The registers of both sensors are in range.
RegistersOK ==
  /\ DOMAIN register = Driver /\ DOMAIN pointer = Driver
  /\ register["temp"] \in [0..3 -> Word] /\ register["light"] \in [0..15 -> Byte]
  /\ pointer["temp"] \in 0..3 /\ pointer["light"] \in 0..15

\* A write keeps the contents of the registers in range and changes nothing of
\* the sensor it does not reach.
LEMMA RegistersAfterReceived ==
  ASSUME NEW s \in Driver, NEW bytes \in Message, RegistersOK, Received(s, bytes)
  PROVE  /\ RegistersOK'
         /\ \A e \in Driver \ {s} : register'[e] = register[e] /\ pointer'[e] = pointer[e]
<1>1. /\ bytes[1] \in Byte
      /\ Len(bytes) >= 2 => bytes[2] \in Byte
      /\ Len(bytes) >= 3 => bytes[3] \in Byte
  BY DEF Message
<1>2. /\ bytes[1] % 4 \in 0..3 /\ bytes[1] % 16 \in 0..15
  BY <1>1, ByteIs
<1>3. CASE s = "temp"
  <2> DEFINE p == bytes[1] % 4
  <2>1. p \in 0..3 /\ register["temp"][p] \in Word
    BY <1>2 DEF RegistersOK
  <2>2. \A b \in Byte : InMemory(register["temp"][p] % 256, b) \in Word
    <3>1. register["temp"][p] % 256 \in Byte
      BY <2>1, WordBytes
    <3> QED BY <3>1, InMemoryWord
  <2>3. Len(bytes) = 3 => InMemory(bytes[3], bytes[2]) \in Word
    BY <1>1, InMemoryWord
  <2>4. /\ pointer' = [pointer EXCEPT !["temp"] = p]
        /\ \/ UNCHANGED register
           \/ \E w \in Word : register' = [register EXCEPT !["temp"][p] = w]
    BY <1>1, <1>3, <2>2, <2>3 DEF ReceivedByTmp102, Received
  <2> HIDE DEF p
  <2> QED BY <1>3, <2>1, <2>4 DEF RegistersOK, Driver
<1>4. CASE s = "light"
  <2> DEFINE p == bytes[1] % 16
  <2>1. \/ UNCHANGED <<pointer, register>>
        \/ /\ pointer' = [pointer EXCEPT !["light"] = p]
           /\ \/ UNCHANGED register
              \/ \E b \in Byte : register' = [register EXCEPT !["light"][p] = b]
    BY <1>1, <1>4 DEF ReceivedByApds9301, Received, Message
  <2>2. p \in 0..15
    BY <1>2
  <2> HIDE DEF p
  <2> QED BY <1>4, <2>1, <2>2 DEF RegistersOK, Driver
<1> QED BY <1>3, <1>4 DEF Driver

\* A measurement keeps the contents of the registers in range and changes only
\* those that hold measurements.
LEMMA MeasuredTyped ==
  ASSUME NEW t \in TempReadings, NEW l \in LightReadings, NEW r,
         r["temp"] \in [0..3 -> Word], r["light"] \in [0..15 -> Byte]
  PROVE  /\ DOMAIN Measured(r, t, l) = Driver
         /\ Measured(r, t, l)["temp"] \in [0..3 -> Word]
         /\ Measured(r, t, l)["light"] \in [0..15 -> Byte]
         /\ \A p \in 1..3 : Measured(r, t, l)["temp"][p] = r["temp"][p]
         /\ \A p \in (0..15) \ (12..15) : Measured(r, t, l)["light"][p] = r["light"][p]
<1>1. t \in Word /\ l[1] \in Word /\ l[2] \in Word
  BY ReadingsAssumption
<1>2. /\ l[1] % 256 \in Byte /\ l[1] \div 256 \in Byte
      /\ l[2] % 256 \in Byte /\ l[2] \div 256 \in Byte
  BY <1>1, WordBytes
<1> QED BY <1>1, <1>2 DEF Measured, Driver

\* What a driver puts on the bus is a message, the configuration word it writes
\* back included.
LEMMA BytesTyped ==
  ASSUME NEW d \in Driver, NEW x \in TransferOf(d, call[d]), x.op = "write",
         call[d] \in CallOf(d), local[d] \in Word \X Word
  PROVE  Bytes(d, x) \in Message
<1>1. ASSUME NEW bytes \in Message, x = Put(bytes)
      PROVE  Bytes(d, x) \in Message
  BY <1>1 DEF Put, PutBack, Bytes, Message
<1>2. ASSUME x = PutBack, d = "temp", call[d].name \in Modifies
      PROVE  Bytes(d, x) \in Message
  <2>1. Modified(call[d], local[d][1]) \in Word
    <3>1. local[d][1] \in Word
      OBVIOUS
    <3>2. call[d].name = "enableShutdown" => call[d].arg \in 0..1
      BY <1>2 DEF CallOf, TempCall
    <3>3. call[d].name = "configConvRate" => call[d].arg \in 0..3
      BY <1>2 DEF CallOf, TempCall
    <3> QED BY <1>2, <3>1, <3>2, <3>3, SetShutdown, SetRate DEF Modified, Modifies
  <2> DEFINE w == Modified(call[d], local[d][1])
  <2>2. w \div 256 \in Byte /\ w % 256 \in Byte /\ 1 \in Byte
    BY <2>1, WordBytes, ByteIs
  <2>3. <<1, w \div 256, w % 256>> \in Message
    BY <2>2, MessageOfBytes
  <2> HIDE DEF w
  <2>4. Bytes(d, x) = <<1, w \div 256, w % 256>>
    BY <1>2 DEF w, Bytes, writeNTempRegisters, Put
  <2> QED BY <2>3, <2>4
<1>3. \A n, variable : Get(n, variable).op = "read"
  BY DEF Get
<1> QED BY <1>1, <1>2, <1>3 DEF TransferOf

\* What a driver reads is a word, whichever sensor answers.
LEMMA ReadTyped ==
  ASSUME NEW d \in Driver, NEW s \in Driver, NEW x \in TransferOf(d, call[d]), x.op = "read",
         RegistersOK
  PROVE  x.into \in 1..2 /\ Assembled(d, x.length, Provided(s)) \in Word
<1>1. x.into \in 1..2
  BY DEF TransferOf, Put, PutBack, Get
<1>2. Provided(s)[1] \in Byte /\ Provided(s)[2] \in Byte
  <2>1. CASE s = "temp"
    <3>1. register[s][pointer[s]] \in Word
      BY <2>1 DEF RegistersOK
    <3> QED BY <2>1, <3>1, WordBytes DEF Provided
  <2>2. CASE s = "light"
    <3>1. pointer[s] \in 0..15 /\ (pointer[s] + 1) % 16 \in 0..15
      BY <2>2 DEF RegistersOK
    <3> QED BY <2>2, <3>1 DEF RegistersOK, Provided
  <2> QED BY <2>1, <2>2 DEF Driver
<1>3. 0 \in Byte
  BY ByteIs
<1> QED BY <1>1, <1>2, <1>3, InMemoryWord DEF Assembled

\* A transfer reads into the first variable, the second or none.
LEMMA IntoTyped ==
  ASSUME NEW d \in Driver, NEW x \in TransferOf(d, call[d])
  PROVE  x.into \in 0..2
BY DEF TransferOf, Put, PutBack, Get

\* A reported temperature fits the variable it is left in.
LEMMA UnsignedTyped ==
  ASSUME NEW t \in Int, -240 <= t, t < 512
  PROVE  t \in Int16 /\ Unsigned(t) \in Word /\ Signed(Unsigned(t)) = t
BY Int16Is, SignedUnsigned

\* What currentTemperature reports of any word: -198 to 400, and below 128 in
\* degrees Celsius; the invariant needs no sharper bounds.
LEMMA ReportedBounds ==
  ASSUME NEW u \in Unit, NEW w \in Word
  PROVE  LET n == Reported(u, Signed(w))
         IN  n \in Int /\ -240 <= n /\ n < 512 /\ (u = UNIT_CELCIUS => n < 256)
<1> DEFINE c == tempConversion(Signed(w))
<1>1. c \in Int /\ -128 <= c /\ c <= 127
  BY SignedInt16, ConversionBounds
<1> HIDE DEF c
<1>2. LET n == InUnit(u, c)
      IN  n \in Int /\ -240 <= n /\ n < 512 /\ (u = UNIT_CELCIUS => n < 256)
  BY <1>1 DEF InUnit, Truncated, Unit, UNIT_CELCIUS, UNIT_FAHRENHEIT, UNIT_KELVIN
<1> QED BY <1>2, Zenon DEF c, Reported

(***************************************************************************)
(* The inductive invariant.                                                *)
(***************************************************************************)
\* Who has the bus, and that nobody talks before there is a handle.
BusOK ==
  /\ RegistersOK
  /\ i2cHandle \in Driver \cup {"none"}
  /\ slave \in [Driver -> Driver \cup {"none"}]
  /\ at \in [Driver -> {"open", "ioctl", "idle", "busy"}]
  /\ \A d \in Driver : at[d] # "open" => i2cHandle \in Driver

\* The calls in progress and what is left of them.
CallsOK ==
  /\ uses \in Programs
  /\ DOMAIN call = Driver /\ DOMAIN todo = Driver
  /\ \A d \in Driver : at[d] # "busy" => call[d] = NoCall
  /\ \A d \in Driver : at[d] = "busy" =>
       call[d] \in uses[d] /\ todo[d] \in Seq(TransferOf(d, call[d]))
  /\ local \in [Driver -> Word \X Word]
  /\ status \in [Driver -> {0, -1}]
  /\ lost \in [Driver -> SUBSET (0..2)]

\* The temperatures reported last, within bounds that one more conversion turns
\* into 0 or 1.
CurOK ==
  /\ cur \in [Unit -> Int]
  /\ \A u \in Unit : -240 <= cur[u] /\ cur[u] < 512
  /\ cur[UNIT_CELCIUS] < 256

\* The answers and the history variable `alone'.
HistoryOK == answer \in [Measures -> BOOLEAN] /\ alone \in [Driver -> BOOLEAN]

\* The typing part of the invariant.
TypeInv == BusOK /\ CallsOK /\ CurOK /\ HistoryOK

\* A driver is only ever in a function of its own header.
LEMMA CallTyped ==
  ASSUME CallsOK, NEW d \in Driver, at[d] = "busy"
  PROVE  call[d] \in CallOf(d)
BY ProgramsAssumption DEF CallsOK, CallOf, Driver

\* The registers after power-on hold words and bytes.
LEMMA PowerOnTyped ==
  /\ PowerOn["temp"] \in [0..3 -> Word]
  /\ PowerOn["light"] \in [0..15 -> Byte]
<1>1. /\ 0 \in Word /\ 24736 \in Word /\ 19200 \in Word /\ 20480 \in Word
      /\ 0 \in Byte /\ 2 \in Byte /\ 80 \in Byte
  BY WordIs, ByteIs
<1> QED BY <1>1 DEF PowerOn

\* The type invariant holds initially.
LEMMA TypeInit == Init => TypeInv
<1> SUFFICES ASSUME Init PROVE TypeInv
  OBVIOUS
<1>1. PICK t \in TempReadings, l \in LightReadings : register = Measured(PowerOn, t, l)
  BY DEF Init
<1>2. RegistersOK
  BY <1>1, PowerOnTyped, MeasuredTyped DEF Init, RegistersOK, Driver
<1>3. BusOK
  BY <1>2 DEF Init, BusOK, Driver
<1>4. CallsOK
  <2>1. <<0, 0>> \in Word \X Word
    BY WordIs
  <2> QED BY <2>1 DEF Init, CallsOK
<1>5. CurOK
  BY DEF Init, CurOK, Unit
<1>6. HistoryOK
  BY DEF Init, HistoryOK
<1> QED BY <1>3, <1>4, <1>5, <1>6 DEF TypeInv

\* A call starts with transfers, variables and arguments in range.
LEMMA EnterTyped ==
  ASSUME TypeInv, NEW d \in Driver, NEW c \in uses[d], Enter(d, c)
  PROVE  TypeInv'
<1>1. BusOK'
  BY DEF TypeInv, BusOK, RegistersOK, Enter, busVars
<1>2. CallsOK'
  <2>1. Transfers(d, c) \in Seq(TransferOf(d, c))
    <3>1. c \in CallOf(d)
      BY ProgramsAssumption DEF TypeInv, CallsOK, CallOf, Driver
    <3> QED BY <3>1, TempTransfersTyped, LightTransfersTyped DEF Transfers, CallOf, Driver
  <2>2. local' \in [Driver -> Word \X Word]
    <3>1. c.name = "currentTemperature" => Unsigned(cur[c.arg]) \in Word
      <4>1. c.name = "currentTemperature" => c.arg \in Unit
        <5>1. c \in CallOf(d)
          BY ProgramsAssumption DEF TypeInv, CallsOK, CallOf, Driver
        <5> QED BY <5>1 DEF CallOf, TempCall, LightCall
      <4> QED BY <4>1, UnsignedTyped DEF TypeInv, CurOK
    <3>2. 0 \in Word
      BY WordIs
    <3>3. <<IF c.name = "currentTemperature" THEN Unsigned(cur[c.arg]) ELSE 0, 0>> \in Word \X Word
      BY <3>1, <3>2
    <3> QED BY <3>3 DEF TypeInv, CallsOK, Enter
  <2>3. status' \in [Driver -> {0, -1}] /\ lost' \in [Driver -> SUBSET (0..2)]
    BY DEF TypeInv, CallsOK, Enter
  <2>4. \A e \in Driver : at'[e] # "busy" => call'[e] = NoCall
    BY DEF TypeInv, CallsOK, BusOK, Enter
  <2>5. uses' = uses /\ DOMAIN call' = Driver /\ DOMAIN todo' = Driver
    BY DEF TypeInv, CallsOK, Enter, busVars
  <2>6. \A e \in Driver : at'[e] = "busy" =>
          call'[e] \in uses[e] /\ todo'[e] \in Seq(TransferOf(e, call'[e]))
    <3>1. call'[d] = c /\ todo'[d] = Transfers(d, c)
      BY DEF TypeInv, CallsOK, Enter
    <3>2. \A e \in Driver \ {d} : call'[e] = call[e] /\ todo'[e] = todo[e] /\ at'[e] = at[e]
      BY DEF TypeInv, CallsOK, BusOK, Enter
    <3>3. \A e \in Driver : at[e] = "busy" => 
          call[e] \in uses[e] /\ todo[e] \in Seq(TransferOf(e, call[e]))
      BY DEF TypeInv, CallsOK
    <3> QED BY <2>1, <3>1, <3>2, <3>3
  <2> QED BY <2>2, <2>3, <2>4, <2>5, <2>6 DEF TypeInv, CallsOK
<1>3. CurOK' /\ HistoryOK'
  BY DEF TypeInv, CurOK, HistoryOK, Enter
<1> QED BY <1>1, <1>2, <1>3 DEF TypeInv

\* A transfer keeps the type invariant, also when it reaches the other sensor.
LEMMA TransferTyped ==
  ASSUME TypeInv, NEW d \in Driver, Transfer(d)
  PROVE  TypeInv'
<1> DEFINE x == Head(todo[d])
           s == slave[i2cHandle]
<1>1. /\ at[d] = "busy" /\ at' = at /\ call' = call /\ uses' = uses
      /\ i2cHandle' = i2cHandle /\ slave' = slave /\ cur' = cur /\ answer' = answer
      /\ todo' = [todo EXCEPT ![d] = Tail(@)]
      /\ alone' = [e \in Driver |-> alone[e] /\ e = d]
  BY DEF Transfer, Disturb
<1>2. call[d] \in CallOf(d) /\ i2cHandle \in Driver /\ s \in Driver \cup {"none"}
  BY <1>1, CallTyped DEF TypeInv, BusOK
<1>3. x \in TransferOf(d, call[d]) /\ Tail(todo[d]) \in Seq(TransferOf(d, call[d]))
  <2>1. todo[d] \in Seq(TransferOf(d, call[d])) /\ todo[d] # <<>>
    BY <1>1 DEF TypeInv, CallsOK, Transfer
  <2> QED BY <2>1, HeadTailProperties
<1>4. x.into \in 0..2
  BY <1>3, IntoTyped
<1>5. \/ /\ status' = [status EXCEPT ![d] = -1]
         /\ lost' = [lost EXCEPT ![d] = @ \cup {x.into}]
         /\ UNCHANGED <<register, pointer, local>>
      \/ /\ s # "none"
         /\ status' = [status EXCEPT ![d] = 0] /\ UNCHANGED lost
         /\ x.op = "write" /\ Received(s, Bytes(d, x)) /\ UNCHANGED local
      \/ /\ s # "none"
         /\ status' = [status EXCEPT ![d] = 0] /\ UNCHANGED lost
         /\ x.op = "read" /\ UNCHANGED <<register, pointer>>
         /\ local' = [local EXCEPT ![d][x.into] = Assembled(d, x.length, Provided(s))]
  BY DEF Transfer, Handle
<1> HIDE DEF x, s
<1>6. RegistersOK'
  <2>1. ASSUME UNCHANGED <<register, pointer>> PROVE RegistersOK'
    BY <2>1 DEF TypeInv, BusOK, RegistersOK
  <2>2. ASSUME s # "none", x.op = "write", Received(s, Bytes(d, x)) PROVE RegistersOK'
    <3>1. Bytes(d, x) \in Message
      BY <1>2, <1>3, <2>2, BytesTyped DEF TypeInv, CallsOK
    <3> QED BY <1>2, <2>2, <3>1, RegistersAfterReceived DEF TypeInv, BusOK
  <2> QED BY <1>5, <2>1, <2>2
<1>7. local' \in [Driver -> Word \X Word]
  <2>1. ASSUME UNCHANGED local PROVE local' \in [Driver -> Word \X Word]
    BY <2>1 DEF TypeInv, CallsOK
  <2>2. ASSUME s # "none", x.op = "read",
               local' = [local EXCEPT ![d][x.into] = Assembled(d, x.length, Provided(s))]
        PROVE  local' \in [Driver -> Word \X Word]
    <3>1. x.into \in 1..2 /\ Assembled(d, x.length, Provided(s)) \in Word
      BY <1>2, <1>3, <2>2, ReadTyped DEF TypeInv, BusOK
    <3>2. [local[d] EXCEPT ![x.into] = Assembled(d, x.length, Provided(s))] \in Word \X Word
      BY <3>1, PairUpdated DEF TypeInv, CallsOK
    <3> QED BY <2>2, <3>2 DEF TypeInv, CallsOK
  <2> QED BY <1>5, <2>1, <2>2
<1>8. status' \in [Driver -> {0, -1}] /\ lost' \in [Driver -> SUBSET (0..2)]
  BY <1>4, <1>5 DEF TypeInv, CallsOK
<1>9. \A e \in Driver : at'[e] = "busy" =>
          call'[e] \in uses'[e] /\ todo'[e] \in Seq(TransferOf(e, call'[e]))
  <2>1. todo'[d] \in Seq(TransferOf(d, call[d])) /\ \A e \in Driver \ {d} : todo'[e] = todo[e]
    BY <1>1, <1>3 DEF TypeInv, CallsOK
  <2>2. \A e \in Driver : at[e] = "busy" => 
          call[e] \in uses[e] /\ todo[e] \in Seq(TransferOf(e, call[e]))
    BY DEF TypeInv, CallsOK
  <2> QED BY <1>1, <2>1, <2>2
<1>10. BusOK' /\ CurOK' /\ HistoryOK'
  BY <1>1, <1>6 DEF TypeInv, BusOK, CurOK, HistoryOK
<1>11. CallsOK'
  <2>1. uses' \in Programs /\ DOMAIN call' = Driver
    BY <1>1 DEF TypeInv, CallsOK
  <2>2. DOMAIN todo' = Driver
    BY <1>1 DEF TypeInv, CallsOK
  <2>3. \A e \in Driver : at'[e] # "busy" => call'[e] = NoCall
    BY <1>1 DEF TypeInv, CallsOK
  <2> QED BY <1>7, <1>8, <1>9, <2>1, <2>2, <2>3 DEF CallsOK
<1> QED BY <1>10, <1>11 DEF TypeInv

\* A call returns with a temperature in range.
LEMMA LeaveTyped ==
  ASSUME TypeInv, NEW d \in Driver, Leave(d)
  PROVE  TypeInv'
<1>1. BusOK'
  BY DEF TypeInv, BusOK, RegistersOK, Leave, Forget, busVars
<1>2. CallsOK'
  <2>1. <<0, 0>> \in Word \X Word
    BY WordIs
  <2> QED BY <2>1 DEF TypeInv, BusOK, CallsOK, Leave, Forget, busVars
<1>3. CurOK'
  <2>1. \A u \in Unit :
          LET n == Reported(u, Signed(local[d][1]))
          IN  n \in Int /\ -240 <= n /\ n < 512 /\ (u = UNIT_CELCIUS => n < 256)
    <3>1. local[d][1] \in Word
      BY DEF TypeInv, CallsOK
    <3> QED BY <3>1, ReportedBounds
  <2>2. cur' = Converted(d)
    BY DEF Leave
  <2>3. UNIT_CELCIUS \in Unit
    BY DEF Unit
  <2> QED BY <2>1, <2>2, <2>3 DEF TypeInv, CurOK, Converted
<1>4. HistoryOK'
  <2>1. \A f \in Measures : Decided(d, f) \in BOOLEAN
    BY Zenon DEF Decided, Dark, Bright
  <2> QED BY <2>1 DEF TypeInv, HistoryOK, Leave, Forget
<1> QED BY <1>1, <1>2, <1>3, <1>4 DEF TypeInv

\* The type invariant is inductive.
LEMMA TypeNext == TypeInv /\ [Next]_vars => TypeInv'
<1> SUFFICES ASSUME TypeInv, [Next]_vars PROVE TypeInv'
  OBVIOUS
<1>1. ASSUME NEW d \in Driver, OpenBus(d) PROVE TypeInv'
  BY <1>1 DEF TypeInv, BusOK, RegistersOK, CallsOK, CurOK, HistoryOK, OpenBus, Disturb
<1>2. ASSUME NEW d \in Driver, SetSlave(d) PROVE TypeInv'
  BY <1>2 DEF TypeInv, BusOK, RegistersOK, CallsOK, CurOK, HistoryOK, SetSlave, Handle, Disturb
<1>3. ASSUME NEW d \in Driver, NEW c \in uses[d], Enter(d, c) PROVE TypeInv'
  BY <1>3, EnterTyped
<1>4. ASSUME NEW d \in Driver, Transfer(d) PROVE TypeInv'
  BY <1>4, TransferTyped
<1>5. ASSUME NEW d \in Driver, Leave(d) PROVE TypeInv'
  BY <1>5, LeaveTyped
<1>6. ASSUME Sample PROVE TypeInv'
  <2>1. RegistersOK'
    BY <1>6, MeasuredTyped DEF TypeInv, BusOK, RegistersOK, Sample
  <2> QED BY <1>6, <2>1
    DEF TypeInv, BusOK, CallsOK, CurOK, HistoryOK, Sample, callVars, historyVars
<1>7. CASE UNCHANGED vars
  BY <1>7 DEF TypeInv, BusOK, RegistersOK, CallsOK, CurOK, HistoryOK,
       vars, busVars, callVars, historyVars
<1> QED BY <1>1, <1>2, <1>3, <1>4, <1>5, <1>6, <1>7 DEF Next

\* The temperature thread is in currentTemperature.
ReadingTemperature == at["temp"] = "busy" /\ call["temp"].name = "currentTemperature"

\* Until a word has been read, and for good if that fails, its variable holds
\* the temperature reported last.
ReadingOK ==
  ReadingTemperature =>
    LET untouched == local["temp"][1] = Unsigned(cur[call["temp"].arg])
    IN  \/ todo["temp"] = <<Put(<<0>>), Get(2, 1)>> /\ untouched
        \/ todo["temp"] = <<Get(2, 1)>> /\ untouched
        \/ todo["temp"] = <<>> /\ (status["temp"] = -1 => untouched)

\* The light thread is in isDark or isBright.
Measuring == at["light"] = "busy" /\ call["light"].name \in Measures

\* Which of its channels are lost so far: the first one is then 0, the second
\* one is what the status tells at the end.
MeasuringOK ==
  Measuring =>
    \/ /\ \/ todo["light"] = <<Put(<<172>>), Get(2, 1), Put(<<174>>), Get(2, 2)>>
          \/ todo["light"] = <<Get(2, 1), Put(<<174>>), Get(2, 2)>>
       /\ local["light"][1] = 0 /\ lost["light"] \cap {1, 2} = {}
    \/ /\ todo["light"] = <<Put(<<174>>), Get(2, 2)>> \/ todo["light"] = <<Get(2, 2)>>
       /\ 1 \in lost["light"] => local["light"][1] = 0
       /\ 2 \notin lost["light"]
    \/ /\ todo["light"] = <<>>
       /\ 1 \in lost["light"] => local["light"][1] = 0
       /\ 2 \in lost["light"] => status["light"] = -1
       /\ status["light"] = -1 => 2 \in lost["light"]

\* The inductive invariant.
SensorInv == TypeInv /\ ReadingOK /\ MeasuringOK

\* A step of one driver.
DriverStep(d) ==
  OpenBus(d) \/ SetSlave(d) \/ (\E c \in uses[d] : Enter(d, c)) \/ Transfer(d) \/ Leave(d)

\* Next as a step of one driver or a measurement.
LEMMA NextIs == Next <=> (\E d \in Driver : DriverStep(d)) \/ Sample
BY DEF Next, DriverStep

\* A driver leaves the other driver's call alone.
LEMMA OtherKept ==
  ASSUME TypeInv, NEW d \in Driver, DriverStep(d), NEW e \in Driver, e # d
  PROVE  /\ at'[e] = at[e] /\ call'[e] = call[e] /\ todo'[e] = todo[e]
         /\ local'[e] = local[e] /\ status'[e] = status[e] /\ lost'[e] = lost[e]
<1>1. CASE OpenBus(d)
  BY <1>1 DEF TypeInv, BusOK, OpenBus
<1>2. CASE SetSlave(d)
  BY <1>2 DEF TypeInv, BusOK, SetSlave
<1>3. ASSUME NEW c \in uses[d], Enter(d, c)
      PROVE  /\ at'[e] = at[e] /\ call'[e] = call[e] /\ todo'[e] = todo[e]
             /\ local'[e] = local[e] /\ status'[e] = status[e] /\ lost'[e] = lost[e]
  BY <1>3 DEF TypeInv, BusOK, CallsOK, Enter
<1>4. CASE Transfer(d)
  BY <1>4 DEF TypeInv, BusOK, CallsOK, Transfer
<1>5. CASE Leave(d)
  BY <1>5 DEF TypeInv, BusOK, CallsOK, Leave, Forget
<1> QED BY <1>1, <1>2, <1>3, <1>4, <1>5 DEF DriverStep

\* No function belongs to both headers; a temperature is asked for in one of
\* the three units.
LEMMA NamesApart ==
  ASSUME TypeInv
  PROVE  /\ at["light"] = "busy" => call["light"].name # "currentTemperature"
         /\ at["temp"] = "busy" => call["temp"].name \notin Measures
         /\ ReadingTemperature => call["temp"].arg \in Unit
<1>1. /\ at["temp"] = "busy" => call["temp"] \in TempCall
      /\ at["light"] = "busy" => call["light"] \in LightCall
  BY CallTyped DEF TypeInv, CallOf, Driver
<1>2. \A c \in LightCall : c.name # "currentTemperature"
  BY DEF LightCall
<1>3. \A c \in TempCall : c.name \notin Measures
  BY DEF TempCall, Measures
<1>4. \A c \in TempCall : c.name = "currentTemperature" => c.arg \in Unit
  BY DEF TempCall
<1> QED BY <1>1, <1>2, <1>3, <1>4 DEF ReadingTemperature

\* Only a call of the temperature driver that returns changes a temperature.
LEMMA CurKept ==
  ASSUME TypeInv, NEW d \in Driver, DriverStep(d), ~(d = "temp" /\ Leave(d))
  PROVE  cur' = cur
<1>1. CASE Leave(d)
  <2>1. d = "light"
    BY <1>1 DEF Driver
  <2>2. call[d].name # "currentTemperature"
    BY <1>1, <2>1, NamesApart DEF Leave
  <2>3. \A u \in Unit : call[d] # [name |-> "currentTemperature", arg |-> u]
    BY <2>2
  <2>4. cur' = [u \in Unit |-> cur[u]]
    BY <1>1, <2>3 DEF Leave, Converted
  <2> QED BY <2>4 DEF TypeInv, CurOK
<1>2. CASE ~Leave(d)
  BY <1>2 DEF DriverStep, OpenBus, SetSlave, Enter, Transfer
<1> QED BY <1>1, <1>2

\* What a transfer does to the variables of its call.
LEMMA TransferEffect ==
  ASSUME TypeInv, NEW d \in Driver, Transfer(d)
  PROVE  LET x == Head(todo[d])
         IN  /\ at[d] = "busy" /\ at'[d] = "busy" /\ call'[d] = call[d] /\ todo'[d] = Tail(todo[d])
             /\ \/ /\ status'[d] = -1 /\ lost'[d] = lost[d] \cup {x.into}
                   /\ local'[d] = local[d]
                \/ /\ status'[d] = 0 /\ lost'[d] = lost[d]
                   /\ x.op = "write" => local'[d] = local[d]
                   /\ x.op = "read" =>
                        \A i \in 1..2 : i # x.into => local'[d][i] = local[d][i]
<1> DEFINE x == Head(todo[d])
           v == Assembled(d, x.length, Provided(slave[Handle(d)]))
<1>1. /\ at[d] = "busy" /\ at'[d] = "busy" /\ call'[d] = call[d] /\ todo'[d] = Tail(todo[d])
      /\ \/ /\ status'[d] = -1 /\ lost'[d] = lost[d] \cup {x.into} /\ local' = local
         \/ /\ status'[d] = 0 /\ lost' = lost
            /\ \/ x.op = "write" /\ local' = local
               \/ x.op = "read" /\ local' = [local EXCEPT ![d][x.into] = v]
  BY DEF TypeInv, CallsOK, Transfer
<1> HIDE DEF x, v
<1>2. local' = [local EXCEPT ![d][x.into] = v] =>
        \A i \in 1..2 : i # x.into => local'[d][i] = local[d][i]
  <2>1. local[d] \in Word \X Word /\ DOMAIN local = Driver
    BY DEF TypeInv, CallsOK
  <2> QED BY <2>1
<1>3. ~("read" = "write")
  OBVIOUS
<1>4. /\ at[d] = "busy" /\ at'[d] = "busy" /\ call'[d] = call[d] /\ todo'[d] = Tail(todo[d])
      /\ \/ /\ status'[d] = -1 /\ lost'[d] = lost[d] \cup {x.into}
            /\ local'[d] = local[d]
         \/ /\ status'[d] = 0 /\ lost'[d] = lost[d]
            /\ x.op = "write" => local'[d] = local[d]
            /\ x.op = "read" =>
                 \A i \in 1..2 : i # x.into => local'[d][i] = local[d][i]
  BY <1>1, <1>2, <1>3
<1> QED BY <1>4 DEF x

\* Sequences of one to four transfers taken apart.
LEMMA TailsOfTwo == \A a, b : Head(<<a, b>>) = a /\ Tail(<<a, b>>) = <<b>>
OBVIOUS

\* The same of one.
LEMMA TailsOfOne == \A a : Head(<<a>>) = a /\ Tail(<<a>>) = <<>>
OBVIOUS

\* The same of three.
LEMMA TailsOfThree == \A a, b, c : Head(<<a, b, c>>) = a /\ Tail(<<a, b, c>>) = <<b, c>>
OBVIOUS

\* The same of four.
LEMMA TailsOfFour ==
  \A a, b, c, d : Head(<<a, b, c, d>>) = a /\ Tail(<<a, b, c, d>>) = <<b, c, d>>
OBVIOUS

\* A temperature that was not read is still the one reported before.
LEMMA ReadingNext ==
  ASSUME TypeInv, ReadingOK, [Next]_vars
  PROVE  ReadingOK'
<1>1. ASSUME UNCHANGED <<at, call, todo, local, status, cur>> PROVE ReadingOK'
  BY <1>1 DEF ReadingOK, ReadingTemperature
<1>2. ASSUME DriverStep("light") PROVE ReadingOK'
  <2>1. cur' = cur
    BY <1>2, CurKept DEF Driver
  <2>2. /\ at'["temp"] = at["temp"] /\ call'["temp"] = call["temp"]
        /\ todo'["temp"] = todo["temp"] /\ local'["temp"] = local["temp"]
        /\ status'["temp"] = status["temp"]
    BY <1>2, OtherKept DEF Driver
  <2> QED BY <2>1, <2>2 DEF ReadingOK, ReadingTemperature
<1>3. ASSUME OpenBus("temp") \/ SetSlave("temp") \/ Leave("temp") PROVE ReadingOK'
  <2>1. at'["temp"] # "busy"
    BY <1>3 DEF TypeInv, BusOK, OpenBus, SetSlave, Leave, Forget, Driver
  <2> QED BY <2>1 DEF ReadingOK, ReadingTemperature
<1>4. ASSUME NEW c \in uses["temp"], Enter("temp", c) PROVE ReadingOK'
  <2>1. SUFFICES ASSUME c.name = "currentTemperature" PROVE ReadingOK'
    <3>1. call'["temp"] = c
      BY <1>4 DEF TypeInv, CallsOK, Enter, Driver
    <3> QED BY <3>1 DEF ReadingOK, ReadingTemperature
  <2>2. call'["temp"] = c /\ cur' = cur /\ todo'["temp"] = Transfers("temp", c)
    BY <1>4 DEF TypeInv, CallsOK, Enter, Driver
  <2>3. local'["temp"] = <<Unsigned(cur[c.arg]), 0>>
    BY <1>4, <2>1 DEF TypeInv, CallsOK, Enter, Driver
  <2>4. Transfers("temp", c) = <<Put(<<0>>), Get(2, 1)>>
    BY <2>1 DEF Transfers, TempTransfers, TempRegister, readNTempRegisters, Modifies
  <2>5. local'["temp"][1] = Unsigned(cur[c.arg])
    BY <2>3
  <2> QED BY <2>2, <2>4, <2>5 DEF ReadingOK
<1>5. ASSUME Transfer("temp") PROVE ReadingOK'
  <2>1. cur' = cur
    BY <1>5 DEF Transfer
  <2>2. SUFFICES ASSUME ReadingTemperature PROVE ReadingOK'
    BY <1>5, TransferEffect DEF ReadingOK, ReadingTemperature, Driver
  <2> DEFINE untouched == local["temp"][1] = Unsigned(cur[call["temp"].arg])
             again == local'["temp"][1] = Unsigned(cur[call["temp"].arg])
             x == Head(todo["temp"])
  <2>3. /\ call'["temp"] = call["temp"]
        /\ todo'["temp"] = Tail(todo["temp"])
        /\ x.op = "write" => local'["temp"] = local["temp"]
        /\ status'["temp"] = -1 => local'["temp"] = local["temp"]
    BY <1>5, TransferEffect DEF Driver
  <2>4. ~ (todo["temp"] = <<>>)
    BY <1>5 DEF Transfer
  <2>5. CASE todo["temp"] = <<Put(<<0>>), Get(2, 1)>>
    <3>1. x.op = "write" /\ todo'["temp"] = <<Get(2, 1)>>
      BY <2>3, <2>5, TailsOfTwo DEF Put
    <3>2. untouched
      BY <2>2, <2>5 DEF ReadingOK
    <3> QED BY <2>1, <2>3, <3>1, <3>2 DEF ReadingOK
  <2>6. CASE todo["temp"] = <<Get(2, 1)>>
    <3>1. todo'["temp"] = <<>>
      BY <2>3, <2>6, TailsOfOne
    <3>2. untouched
      BY <2>2, <2>6 DEF ReadingOK
    <3> QED BY <2>1, <2>3, <3>1, <3>2 DEF ReadingOK
  <2> QED BY <2>2, <2>4, <2>5, <2>6 DEF ReadingOK
<1> QED BY <1>1, <1>2, <1>3, <1>4, <1>5, NextIs
  DEF DriverStep, Driver, Sample, vars, busVars, callVars

\* A transfer of isDark or isBright keeps the account of its lost channels.
LEMMA MeasuringTransfer ==
  ASSUME TypeInv, MeasuringOK, Measuring, Transfer("light")
  PROVE  MeasuringOK'
<1> DEFINE x == Head(todo["light"])
           L == lost["light"]
           first == local["light"][1]
<1>1. /\ todo'["light"] = Tail(todo["light"])
      /\ \/ /\ status'["light"] = -1 /\ lost'["light"] = L \cup {x.into}
            /\ local'["light"][1] = first
         \/ /\ status'["light"] = 0 /\ lost'["light"] = L
            /\ x.op = "write" \/ x.into = 2 => local'["light"][1] = first
  <2>1. x.op = "write" \/ x.op = "read"
    <3>1. todo["light"] \in Seq(TransferOf("light", call["light"])) /\ todo["light"] # <<>>
      BY DEF TypeInv, CallsOK, Transfer, Driver
    <3>2. x \in TransferOf("light", call["light"])
      BY <3>1, HeadTailProperties
    <3> HIDE DEF x
    <3> QED BY <3>2 DEF TransferOf, Put, PutBack, Get
  <2> QED BY <2>1, TransferEffect DEF Driver
<1>2. todo["light"] # <<>>
  BY DEF Transfer
<1>3. /\ \A bytes : Put(bytes).op = "write" /\ Put(bytes).into = 0
      /\ \A n, variable : Get(n, variable).op = "read" /\ Get(n, variable).into = variable
  BY DEF Put, Get
<1>4. CASE todo["light"] = <<Put(<<172>>), Get(2, 1), Put(<<174>>), Get(2, 2)>>
  <2>1. x = Put(<<172>>) /\ todo'["light"] = <<Get(2, 1), Put(<<174>>), Get(2, 2)>>
    BY <1>1, <1>4, TailsOfFour
  <2>2. first = 0 /\ L \cap {1, 2} = {}
    BY <1>4 DEF MeasuringOK
  <2> HIDE DEF x, L, first
  <2>3. local'["light"][1] = 0 /\ lost'["light"] \cap {1, 2} = {}
    BY <1>1, <1>3, <2>1, <2>2
  <2> QED BY <2>1, <2>3 DEF MeasuringOK
<1>5. CASE todo["light"] = <<Get(2, 1), Put(<<174>>), Get(2, 2)>>
  <2>1. x = Get(2, 1) /\ todo'["light"] = <<Put(<<174>>), Get(2, 2)>>
    BY <1>1, <1>5, TailsOfThree
  <2>2. first = 0 /\ L \cap {1, 2} = {}
    BY <1>5 DEF MeasuringOK
  <2> HIDE DEF x, L, first
  <2>3. (1 \in lost'["light"] => local'["light"][1] = 0) /\ 2 \notin lost'["light"]
    BY <1>1, <1>3, <2>1, <2>2
  <2> QED BY <2>1, <2>3 DEF MeasuringOK
<1>6. CASE todo["light"] = <<Put(<<174>>), Get(2, 2)>>
  <2>1. x = Put(<<174>>) /\ todo'["light"] = <<Get(2, 2)>>
    BY <1>1, <1>6, TailsOfTwo
  <2>2. (1 \in L => first = 0) /\ 2 \notin L
    BY <1>6 DEF MeasuringOK
  <2> HIDE DEF x, L, first
  <2>3. (1 \in lost'["light"] => local'["light"][1] = 0) /\ 2 \notin lost'["light"]
    BY <1>1, <1>3, <2>1, <2>2
  <2> QED BY <2>1, <2>3 DEF MeasuringOK
<1>7. CASE todo["light"] = <<Get(2, 2)>>
  <2>1. x = Get(2, 2) /\ todo'["light"] = <<>>
    BY <1>1, <1>7, TailsOfOne
  <2>2. (1 \in L => first = 0) /\ 2 \notin L
    BY <1>7 DEF MeasuringOK
  <2> HIDE DEF x, L, first
  <2>3. /\ 1 \in lost'["light"] => local'["light"][1] = 0
        /\ 2 \in lost'["light"] => status'["light"] = -1
        /\ status'["light"] = -1 => 2 \in lost'["light"]
    BY <1>1, <1>3, <2>1, <2>2
  <2> QED BY <2>1, <2>3 DEF MeasuringOK
<1> QED BY <1>2, <1>4, <1>5, <1>6, <1>7 DEF MeasuringOK

\* The two conversations of isDark, one after the other.
LEMMA ConcatOfTwos == \A a, b, e, f : <<a, b>> \o <<e, f>> = <<a, b, e, f>>
<1> TAKE a, b, e, f
  <1> DEFINE S == {a, b, e, f}
             q == <<a, b>> \o <<e, f>>
  <1>1. <<a, b>> \in Seq(S) /\ <<e, f>> \in Seq(S) /\ <<a, b, e, f>> \in Seq(S)
    OBVIOUS
  <1>2. q \in Seq(S) /\ Len(q) = 4 /\ q[1] = a /\ q[2] = b /\ q[3] = e /\ q[4] = f
    BY <1>1, ConcatProperties
  <1> HIDE DEF S, q
  <1>3. q = <<a, b, e, f>>
    BY <1>1, <1>2
  <1> QED BY <1>3 DEF q

\* Every step does.
LEMMA MeasuringNext ==
  ASSUME TypeInv, MeasuringOK, [Next]_vars
  PROVE  MeasuringOK'
<1>1. ASSUME UNCHANGED <<at, call, todo, local, status, lost>> PROVE MeasuringOK'
  BY <1>1 DEF MeasuringOK, Measuring
<1>2. ASSUME DriverStep("temp") PROVE MeasuringOK'
  <2>1. /\ at'["light"] = at["light"] /\ call'["light"] = call["light"]
        /\ todo'["light"] = todo["light"] /\ local'["light"] = local["light"]
        /\ status'["light"] = status["light"] /\ lost'["light"] = lost["light"]
    BY <1>2, OtherKept DEF Driver
  <2> QED BY <2>1 DEF MeasuringOK, Measuring
<1>3. ASSUME OpenBus("light") \/ SetSlave("light") \/ Leave("light") PROVE MeasuringOK'
  <2>1. at'["light"] # "busy"
    BY <1>3 DEF TypeInv, BusOK, OpenBus, SetSlave, Leave, Forget, Driver
  <2> QED BY <2>1 DEF MeasuringOK, Measuring
<1>4. ASSUME NEW c \in uses["light"], Enter("light", c) PROVE MeasuringOK'
  <2>1. SUFFICES ASSUME c.name \in Measures PROVE MeasuringOK'
    <3>1. call'["light"] = c
      BY <1>4 DEF TypeInv, CallsOK, Enter, Driver
    <3> QED BY <3>1 DEF MeasuringOK, Measuring
  <2>2. todo'["light"] = Transfers("light", c) /\ lost'["light"] = {}
    BY <1>4 DEF TypeInv, CallsOK, Enter, Driver
  <2>3. local'["light"] = <<0, 0>>
    <3>1. c.name # "currentTemperature"
      BY <2>1 DEF Measures
    <3>2. DOMAIN local = Driver
      BY DEF TypeInv, CallsOK
    <3> QED BY <1>4, <3>1, <3>2 DEF Enter, Driver
  <2>4. local'["light"][1] = 0
    BY <2>3
  <2>5. Transfers("light", c) = readNLightRegisters(DATA0LOW, 1) \o readNLightRegisters(DATA1LOW, 2)
    <3>1. "light" # "temp"
      OBVIOUS
    <3> QED BY <2>1, <3>1, Zenon DEF Transfers, LightTransfers
  <2>6. /\ readNLightRegisters(DATA0LOW, 1) = <<Put(<<172>>), Get(2, 1)>>
        /\ readNLightRegisters(DATA1LOW, 2) = <<Put(<<174>>), Get(2, 2)>>
    <3>1. (128 + 32) + 12 = 172 /\ (128 + 32) + 14 = 174
      OBVIOUS
    <3> QED BY <3>1, Zenon
      DEF readNLightRegisters, DATA0LOW, DATA1LOW, BIT_CMD_SELECT_REG, BIT_WORD_CMD
  <2>7. <<Put(<<172>>), Get(2, 1)>> \o <<Put(<<174>>), Get(2, 2)>>
          = <<Put(<<172>>), Get(2, 1), Put(<<174>>), Get(2, 2)>>
    BY ConcatOfTwos
  <2>8. todo'["light"] = <<Put(<<172>>), Get(2, 1), Put(<<174>>), Get(2, 2)>>
    BY <2>2, <2>5, <2>6, <2>7
  <2> QED BY <2>2, <2>4, <2>8 DEF MeasuringOK
<1>5. ASSUME Transfer("light") PROVE MeasuringOK'
  <2>1. CASE Measuring
    BY <1>5, <2>1, MeasuringTransfer
  <2>2. CASE ~Measuring
    BY <1>5, <2>2, TransferEffect DEF MeasuringOK, Measuring, Driver
  <2> QED BY <2>1, <2>2
<1> QED BY <1>1, <1>2, <1>3, <1>4, <1>5, NextIs
  DEF DriverStep, Driver, Sample, vars, callVars, historyVars

\* The inductive invariant holds in every reachable state, for all programs
\* and all readings.
THEOREM SensorsInvariant == Spec => []SensorInv
<1>1. Init => SensorInv
  <2>1. Init => ReadingOK /\ MeasuringOK
    BY DEF Init, ReadingOK, ReadingTemperature, MeasuringOK, Measuring, Driver
  <2> QED BY <2>1, TypeInit DEF SensorInv
<1>2. SensorInv /\ [Next]_vars => SensorInv'
  BY TypeNext, ReadingNext, MeasuringNext DEF SensorInv
<1> QED BY <1>1, <1>2, PTL DEF Spec

\* A reported temperature fits 16 bits.
LEMMA BoundedInt16 ==
  ASSUME NEW t \in Int, -240 <= t, t < 512
  PROVE  t \in Int16
BY Int16Is

\* Type correctness of the two drivers' conversations: SensorsTypeOK.
THEOREM SensorsTyped == Spec => []SensorsTypeOK
<1>1. SensorInv => SensorsTypeOK
  <2> SUFFICES ASSUME SensorInv PROVE SensorsTypeOK
    OBVIOUS
  <2>1. cur \in [Unit -> Int16]
    BY BoundedInt16 DEF SensorInv, TypeInv, CurOK
  <2>2. \A d \in Driver : call[d] \in uses[d] \cup {NoCall}
    BY DEF SensorInv, TypeInv, BusOK, CallsOK
  <2> QED BY <2>1, <2>2
    DEF SensorInv, TypeInv, BusOK, RegistersOK, CallsOK, HistoryOK, SensorsTypeOK
<1> QED BY <1>1, SensorsInvariant, PTL

\* Whatever the two drivers call, one sensor gets all transfers and the other
\* none once both are set up (light_driver.c:4, temp_driver.c:7).
THEOREM OneSensorServedHolds == Spec => OneSensorServed
<1> DEFINE Kept == /\ UNCHANGED <<i2cHandle, slave>>
                   /\ \A s \in Driver : s # slave[i2cHandle] =>
                        /\ pointer'[s] = pointer[s]
                        /\ \A p \in (DOMAIN register[s]) \ Readings(s) :
                             register'[s][p] = register[s][p]
<1>1. SensorInv /\ [Next]_vars => [BothSetUp => Kept]_vars
  <2> SUFFICES ASSUME TypeInv, Next, BothSetUp PROVE Kept
    BY DEF SensorInv
  <2>1. ASSUME UNCHANGED <<i2cHandle, slave, pointer, register>> PROVE Kept
    BY <2>1
  <2>2. ASSUME NEW d \in Driver, DriverStep(d) PROVE Kept
    <3>1. ~OpenBus(d) /\ ~SetSlave(d)
      BY DEF BothSetUp, OpenBus, SetSlave
    <3>2. (\E c \in uses[d] : Enter(d, c)) \/ Leave(d) =>
            UNCHANGED <<i2cHandle, slave, pointer, register>>
      BY DEF Enter, Leave, Forget, busVars
    <3>3. ASSUME Transfer(d) PROVE Kept
      <4> DEFINE x == Head(todo[d])
                 s == slave[i2cHandle]
      <4>1. UNCHANGED <<i2cHandle, slave>>
        BY <3>3 DEF Transfer
      <4>2. \/ UNCHANGED <<register, pointer>>
            \/ s # "none" /\ x.op = "write" /\ Received(s, Bytes(d, x))
        BY <3>3 DEF Transfer, Handle
      <4>3. ASSUME s # "none", x.op = "write", Received(s, Bytes(d, x)) PROVE Kept
        <5>1. at[d] = "busy" /\ todo[d] # <<>>
          BY <3>3 DEF Transfer
        <5>2. x \in TransferOf(d, call[d])
          BY <5>1, HeadTailProperties DEF TypeInv, CallsOK
        <5>3. call[d] \in CallOf(d) /\ local[d] \in Word \X Word
          BY <5>1, CallTyped DEF TypeInv, CallsOK
        <5>4. s \in Driver
          BY <4>3, <5>1 DEF TypeInv, BusOK
        <5>5. Bytes(d, x) \in Message
          BY <4>3, <5>2, <5>3, BytesTyped
        <5>6. \A e \in Driver \ {s} : register'[e] = register[e] /\ pointer'[e] = pointer[e]
          BY <4>3, <5>4, <5>5, RegistersAfterReceived DEF TypeInv, BusOK
        <5> QED BY <4>1, <5>6
      <4> QED BY <2>1, <4>1, <4>2, <4>3
    <3> QED BY <2>1, <2>2, <3>1, <3>2, <3>3 DEF DriverStep
  <2>3. ASSUME Sample PROVE Kept
    <3>1. UNCHANGED <<i2cHandle, slave, pointer>>
      BY <2>3 DEF Sample
    <3>2. PICK t \in TempReadings, l \in LightReadings : register' = Measured(register, t, l)
      BY <2>3 DEF Sample
    <3>3. /\ DOMAIN register["temp"] = 0..3 /\ DOMAIN register["light"] = 0..15
          /\ \A p \in 1..3 : register'["temp"][p] = register["temp"][p]
          /\ \A p \in (0..15) \ (12..15) : register'["light"][p] = register["light"][p]
      BY <3>2, MeasuredTyped DEF TypeInv, BusOK, RegistersOK
    <3>4. \A s \in Driver : \A p \in (DOMAIN register[s]) \ Readings(s) :
            register'[s][p] = register[s][p]
      BY <3>3 DEF Driver, Readings
    <3> QED BY <3>1, <3>4
  <2> QED BY <2>2, <2>3, NextIs
<1> QED BY <1>1, SensorsInvariant, PTL DEF Spec, OneSensorServed

\* Whatever was measured before, a temperature that could not be read comes out
\* as the freezing point (temp_driver.c:272).
THEOREM FailureReadsFreezingHolds == Spec => FailureReadsFreezing
<1> DEFINE Kept == Leaves("temp", "currentTemperature") /\ status["temp"] = -1
                     => cur'[call["temp"].arg] \in Freezing(call["temp"].arg)
<1>1. SensorInv /\ [Next]_vars => [Kept]_vars
  <2> SUFFICES ASSUME SensorInv, Next, Leaves("temp", "currentTemperature"), status["temp"] = -1
               PROVE  cur'[call["temp"].arg] \in Freezing(call["temp"].arg)
    OBVIOUS
  <2> DEFINE u == call["temp"].arg
             c == tempConversion(cur[u])
  <2>1. Leave("temp")
    <3>1. ~DriverStep("light") /\ ~Sample
      BY OtherKept DEF SensorInv, Leaves, Driver, Sample, callVars
    <3>2. DriverStep("temp")
      BY <3>1, NextIs DEF Driver
    <3> QED BY <3>2 DEF DriverStep, OpenBus, SetSlave, Enter, Transfer, Leaves,
         SensorInv, TypeInv, BusOK
  <2>2. ReadingTemperature /\ todo["temp"] = <<>>
    BY <2>1 DEF Leaves, Leave, ReadingTemperature
  <2>3. local["temp"][1] = Unsigned(cur[u])
    BY <2>2 DEF SensorInv, ReadingOK
  <2>4. u \in Unit /\ cur[u] \in Int /\ -240 <= cur[u] /\ cur[u] < 512
    BY <2>2, NamesApart DEF SensorInv, TypeInv, CurOK
  <2>5. cur'[u] = Reported(u, Signed(local["temp"][1]))
    <3>1. call["temp"] = [name |-> "currentTemperature", arg |-> u]
      <4>1. call["temp"] \in TempCall
        BY <2>2, CallTyped DEF SensorInv, TypeInv, ReadingTemperature, CallOf, Driver
      <4> QED BY <2>2, <4>1 DEF TempCall, ReadingTemperature
    <3> QED BY <2>1, <2>4, <3>1 DEF Leave, Converted
  <2>6. cur'[u] = InUnit(u, c)
    BY <2>3, <2>4, <2>5, UnsignedTyped DEF Reported
  <2>7. c \in {0, 1}
    BY <2>4, ConversionOfConverted
  <2>8. u = UNIT_CELCIUS => c = 0
    <3>1. u = UNIT_CELCIUS => cur[u] < 256
      BY DEF SensorInv, TypeInv, CurOK
    <3> QED BY <2>4, <3>1, ConversionOfConverted
  <2>9. /\ InUnit(UNIT_CELCIUS, 0) = 0
        /\ InUnit(UNIT_FAHRENHEIT, 0) = 32 /\ InUnit(UNIT_FAHRENHEIT, 1) = 33
        /\ InUnit(UNIT_KELVIN, 0) = 273 /\ InUnit(UNIT_KELVIN, 1) = 274
    BY DEF InUnit, Truncated, UNIT_CELCIUS, UNIT_FAHRENHEIT, UNIT_KELVIN
  <2>10. /\ 0 \in Freezing(UNIT_CELCIUS)
         /\ 32 \in Freezing(UNIT_FAHRENHEIT) /\ 33 \in Freezing(UNIT_FAHRENHEIT)
         /\ 273 \in Freezing(UNIT_KELVIN) /\ 274 \in Freezing(UNIT_KELVIN)
    BY DEF Freezing, UNIT_CELCIUS, UNIT_FAHRENHEIT, UNIT_KELVIN
  <2> HIDE DEF c, u
  <2>11. cur'[u] \in Freezing(u)
    BY <2>4, <2>6, <2>7, <2>8, <2>9, <2>10 DEF Unit
  <2> QED BY <2>11 DEF u
<1> QED BY <1>1, SensorsInvariant, PTL DEF Spec, FailureReadsFreezing

\* Whatever the light, the channel that could not be read decides what isDark
\* says (light_driver.c:257-258).
THEOREM LostChannelDecidesHolds == Spec => LostChannelDecides
<1> DEFINE Kept == Leaves("light", "isDark") =>
       /\ 2 \in lost["light"] => ~answer'["isDark"]
       /\ 1 \in lost["light"] /\ 2 \notin lost["light"] => answer'["isDark"]
<1>1. SensorInv /\ [Next]_vars => [Kept]_vars
  <2> SUFFICES ASSUME SensorInv, Next, Leaves("light", "isDark")
               PROVE  /\ 2 \in lost["light"] => ~answer'["isDark"]
                      /\ 1 \in lost["light"] /\ 2 \notin lost["light"] => answer'["isDark"]
    OBVIOUS
  <2>1. Leave("light")
    <3>1. ~DriverStep("temp") /\ ~Sample
      BY OtherKept DEF SensorInv, Leaves, Driver, Sample, callVars
    <3>2. DriverStep("light")
      BY <3>1, NextIs DEF Driver
    <3> QED BY <3>2 DEF DriverStep, OpenBus, SetSlave, Enter, Transfer, Leaves,
         SensorInv, TypeInv, BusOK
  <2>2. Measuring /\ todo["light"] = <<>>
    BY <2>1 DEF Leaves, Leave, Measuring, Measures
  <2>3. /\ 1 \in lost["light"] => local["light"][1] = 0
        /\ 2 \in lost["light"] => status["light"] = -1
        /\ status["light"] = -1 => 2 \in lost["light"]
    BY <2>2 DEF SensorInv, MeasuringOK
  <2>4. answer'["isDark"] = Decided("light", "isDark")
    BY <2>1 DEF Leave, Leaves, Measures
  <2>5. status["light"] \in {0, -1}
    BY DEF SensorInv, TypeInv, CallsOK, Driver
  <2>6. \A w : lightSensorLux(0, w) = 0
    BY DEF lightSensorLux
  <2>7. Dark(0)
    BY DEF Dark, FiftyLux
  <2>8. 2 \in lost["light"] => ~answer'["isDark"]
    <3>1. -1 # 0
      OBVIOUS
    <3>2. 2 \in lost["light"] => status["light"] # 0
      BY <2>3, <3>1
    <3> QED BY <2>4, <3>2 DEF Decided
  <2>9. 1 \in lost["light"] /\ 2 \notin lost["light"] => answer'["isDark"]
    BY <2>3, <2>4, <2>5, <2>6, <2>7, Zenon DEF Decided
  <2> QED BY <2>8, <2>9
<1> QED BY <1>1, SensorsInvariant, PTL DEF Spec, LostChannelDecides

(***************************************************************************)
(* What a driver gets from its sensor when it has the bus to itself.       *)
(***************************************************************************)
\* How many bytes a call reads at a time, from which register, and the byte that
\* selects it.
Width(d, c) == IF d = "temp" \/ c.name \in Measures THEN 2 ELSE 1

Target(d, c, variable) ==
  IF d = "temp" THEN TempRegister[c.name]
  ELSE IF c.name \in Measures THEN IF variable = 1 THEN DATA0LOW ELSE DATA1LOW
  ELSE LightRegister[c.name]

Selection(d, c, variable) ==
  IF d = "temp" THEN Target(d, c, variable)
  ELSE IF c.name \in Measures THEN BIT_CMD_SELECT_REG + BIT_WORD_CMD + Target(d, c, variable)
  ELSE BIT_CMD_SELECT_REG + Target(d, c, variable)

\* Every read but the first is right behind the write that selects its register.
Selected(d, c, q) ==
  \A i \in 1..Len(q) : q[i].op = "read" =>
    /\ q[i].length = Width(d, c) /\ q[i].into \in 1..2
    /\ i > 1 => q[i - 1] = Put(<<Selection(d, c, q[i].into)>>)

SelectedOK == \A d \in Driver : at[d] = "busy" => Selected(d, call[d], todo[d])

Undisturbed(d) == at[d] = "busy" /\ alone[d] /\ slave[i2cHandle] = d

PointedOK ==
  \A d \in Driver : Undisturbed(d) /\ lost[d] = {} /\ todo[d] # <<>> /\ Head(todo[d]).op = "read" =>
    pointer[d] = Target(d, call[d], Head(todo[d]).into)

\* A message is a write.
LEMMA OpOfPut == \A bytes : Put(bytes).op = "write" /\ Put(bytes).bytes = bytes
BY DEF Put

\* What configConvRate adds to reading the configuration makes three transfers.
LEMMA AppendToTwo == \A a, b, e : Append(<<a, b>>, e) = <<a, b, e>>
<1> TAKE a, b, e
<1> DEFINE S == {a, b, e}
           q == Append(<<a, b>>, e)
<1>1. <<a, b>> \in Seq(S) /\ <<a, b, e>> \in Seq(S) /\ e \in S
  OBVIOUS
<1>2. q \in Seq(S) /\ Len(q) = 3 /\ q[1] = a /\ q[2] = b /\ q[3] = e
  BY <1>1, AppendProperties
<1> HIDE DEF S, q
<1>3. q = <<a, b, e>>
  BY <1>1, <1>2
<1> QED BY <1>3 DEF q

\* isDark and isBright read the two channels, one after the other.
LEMMA MeasuresTransfers ==
  ASSUME NEW c, c.name \in Measures
  PROVE  Transfers("light", c) = <<Put(<<172>>), Get(2, 1), Put(<<174>>), Get(2, 2)>>
<1>1. Transfers("light", c) = readNLightRegisters(DATA0LOW, 1) \o readNLightRegisters(DATA1LOW, 2)
  <2>1. "light" # "temp"
    OBVIOUS
  <2> QED BY <2>1, Zenon DEF Transfers, LightTransfers
<1>2. /\ readNLightRegisters(DATA0LOW, 1) = <<Put(<<172>>), Get(2, 1)>>
      /\ readNLightRegisters(DATA1LOW, 2) = <<Put(<<174>>), Get(2, 2)>>
  <2>1. (128 + 32) + 12 = 172 /\ (128 + 32) + 14 = 174
    OBVIOUS
  <2> QED BY <2>1, Zenon
      DEF readNLightRegisters, DATA0LOW, DATA1LOW, BIT_CMD_SELECT_REG, BIT_WORD_CMD
<1>3. <<Put(<<172>>), Get(2, 1)>> \o <<Put(<<174>>), Get(2, 2)>>
          = <<Put(<<172>>), Get(2, 1), Put(<<174>>), Get(2, 2)>>
  BY ConcatOfTwos
<1> QED BY <1>1, <1>2, <1>3

\* A call starts with a write, and selects each register before it reads it.
LEMMA SelectedInit ==
  ASSUME NEW d \in Driver, NEW c \in CallOf(d)
  PROVE  /\ Selected(d, c, Transfers(d, c))
         /\ Transfers(d, c) # <<>> => Head(Transfers(d, c)).op = "write"
<1>1. ASSUME NEW b, Width(d, c) = 2, b = Selection(d, c, 1)
      PROVE  Selected(d, c, <<Put(<<b>>), Get(2, 1)>>) /\ Selected(d, c, <<Put(<<b>>), Get(2, 1), PutBack>>)
  BY <1>1 DEF Selected, Put, Get, PutBack
<1>2. ASSUME NEW b, Width(d, c) = 1, b = Selection(d, c, 1)
      PROVE  Selected(d, c, <<Put(<<b>>), Get(1, 1)>>)
  BY <1>2 DEF Selected, Put, Get
<1>3. ASSUME NEW b1, NEW b2, Width(d, c) = 2, b1 = Selection(d, c, 1), b2 = Selection(d, c, 2)
      PROVE  Selected(d, c, <<Put(<<b1>>), Get(2, 1), Put(<<b2>>), Get(2, 2)>>)
  BY <1>3 DEF Selected, Put, Get
<1>4. \A bytes : Selected(d, c, <<Put(bytes)>>)
  BY DEF Selected, Put
<1>5. Selected(d, c, <<>>)
  BY DEF Selected
<1>6. /\ \A a : Head(<<a>>) = a
      /\ \A a, b : Head(<<a, b>>) = a
      /\ \A a, b, e : Head(<<a, b, e>>) = a
      /\ \A a, b, e, f : Head(<<a, b, e, f>>) = a
  BY TailsOfOne, TailsOfTwo, TailsOfThree, TailsOfFour
<1>7. CASE d = "temp"
  <2> DEFINE a == TempRegister[c.name]
  <2>1. Width(d, c) = 2 /\ a = Selection(d, c, 1)
    BY <1>7 DEF Width, Selection, Target
  <2>2. Append(<<Put(<<a>>), Get(2, 1)>>, PutBack) = <<Put(<<a>>), Get(2, 1), PutBack>>
    <3> HIDE DEF a
    <3> QED BY AppendToTwo
  <2>3. Transfers(d, c) \in
          {<<Put(<<a>>), Get(2, 1), PutBack>>, <<Put(<<a, c.arg \div 256, c.arg % 256>>)>>,
           <<Put(<<a>>), Get(2, 1)>>}
    BY <1>7, <2>2, Zenon
      DEF Transfers, TempTransfers, readNTempRegisters, writeNTempRegisters
  <2> HIDE DEF a
  <2>4. Selected(d, c, Transfers(d, c))
    BY <1>1, <1>4, <2>1, <2>3
  <2>5. Head(Transfers(d, c)).op = "write"
    BY <1>6, <2>3, OpOfPut
  <2> QED BY <2>4, <2>5
<1>8. CASE d = "light" /\ c.name \in Measures
  <2>1. Width(d, c) = 2 /\ 172 = Selection(d, c, 1) /\ 174 = Selection(d, c, 2)
    <3>1. (128 + 32) + 12 = 172 /\ (128 + 32) + 14 = 174 /\ 2 # 1 /\ "light" # "temp"
      OBVIOUS
    <3> QED BY <1>8, <3>1, Zenon
      DEF Width, Selection, Target, DATA0LOW, DATA1LOW, BIT_CMD_SELECT_REG, BIT_WORD_CMD
  <2>2. Transfers(d, c) = <<Put(<<172>>), Get(2, 1), Put(<<174>>), Get(2, 2)>>
    BY <1>8, MeasuresTransfers
  <2> QED BY <1>3, <1>6, <2>1, <2>2, OpOfPut
<1>9. CASE d = "light" /\ c.name \notin Measures
  <2> DEFINE a == LightRegister[c.name]
             b == BIT_CMD_SELECT_REG + a
  <2>1. Width(d, c) = 1 /\ b = Selection(d, c, 1)
    BY <1>9 DEF Width, Selection, Target
  <2>2. Transfers(d, c) \in {<<>>, <<Put(<<b, c.arg>>)>>, <<Put(<<b>>), Get(1, 1)>>}
    <3>1. "light" # "temp"
      OBVIOUS
    <3> QED BY <1>9, <3>1, Zenon
      DEF Transfers, LightTransfers, readLightRegisters, writeNLightRegisters
  <2> HIDE DEF b
  <2> QED BY <1>2, <1>4, <1>5, <1>6, <2>1, <2>2, OpOfPut
<1> QED BY <1>7, <1>8, <1>9 DEF Driver

\* It does so to the end; what is left may start with the read of the register
\* just selected.
LEMMA SelectedTail ==
  ASSUME NEW d, NEW c, NEW S, NEW q \in Seq(S), q # <<>>, Selected(d, c, q)
  PROVE  /\ Selected(d, c, Tail(q))
         /\ Tail(q) # <<>> /\ Head(Tail(q)).op = "read" =>
              Head(q) = Put(<<Selection(d, c, Head(Tail(q)).into)>>)
<1>1. /\ Len(Tail(q)) = Len(q) - 1 /\ Tail(q) \in Seq(S)
      /\ \A i \in 1..Len(Tail(q)) : Tail(q)[i] = q[i + 1]
  BY HeadTailProperties
<1>2. Len(q) \in Nat
  OBVIOUS
<1>3. Selected(d, c, Tail(q))
  BY <1>1, <1>2 DEF Selected
<1>4. ASSUME Tail(q) # <<>>, Head(Tail(q)).op = "read"
      PROVE  Head(q) = Put(<<Selection(d, c, Head(Tail(q)).into)>>)
  <2>1. Head(Tail(q)) = Tail(q)[1] /\ Len(Tail(q)) > 0 /\ Head(q) = q[1]
    BY <1>1, <1>4
  <2>2. Head(Tail(q)) = q[2] /\ 2 \in 1..Len(q)
    BY <1>1, <1>2, <2>1
  <2>3. q[2 - 1] = Put(<<Selection(d, c, q[2].into)>>)
    BY <1>4, <2>2 DEF Selected
  <2>4. 2 - 1 = 1
    OBVIOUS
  <2> QED BY <2>1, <2>2, <2>3, <2>4
<1> QED BY <1>3, <1>4

\* Selection before reading is kept by every step.
LEMMA SelectedNext ==
  ASSUME TypeInv, SelectedOK, [Next]_vars
  PROVE  SelectedOK'
<1>1. ASSUME NEW e \in Driver, at'[e] = at[e], call'[e] = call[e], todo'[e] = todo[e],
             at'[e] = "busy"
      PROVE  Selected(e, call'[e], todo'[e])
  BY <1>1 DEF SelectedOK
<1>2. ASSUME NEW d \in Driver, DriverStep(d) PROVE SelectedOK'
  <2>1. ASSUME at'[d] = "busy" PROVE Selected(d, call'[d], todo'[d])
    <3>1. ASSUME NEW c \in uses[d], Enter(d, c) PROVE Selected(d, call'[d], todo'[d])
      <4>1. call'[d] = c /\ todo'[d] = Transfers(d, c)
        BY <3>1 DEF Enter, TypeInv, CallsOK
      <4>2. c \in CallOf(d)
        BY ProgramsAssumption DEF TypeInv, CallsOK, CallOf, Driver
      <4> QED BY <4>1, <4>2, SelectedInit
    <3>2. ASSUME Transfer(d) PROVE Selected(d, call'[d], todo'[d])
      <4>1. at[d] = "busy" /\ call'[d] = call[d] /\ todo'[d] = Tail(todo[d]) /\ todo[d] # <<>>
        BY <3>2, TransferEffect DEF Transfer
      <4>2. todo[d] \in Seq(TransferOf(d, call[d])) /\ Selected(d, call[d], todo[d])
        BY <4>1 DEF TypeInv, CallsOK, SelectedOK
      <4> QED BY <4>1, <4>2, SelectedTail
    <3>3. ~(OpenBus(d) \/ SetSlave(d) \/ Leave(d))
      BY <2>1 DEF TypeInv, BusOK, OpenBus, SetSlave, Leave, Forget
    <3> QED BY <1>2, <3>1, <3>2, <3>3 DEF DriverStep
  <2>2. \A e \in Driver \ {d} : at'[e] = at[e] /\ call'[e] = call[e] /\ todo'[e] = todo[e]
    BY <1>2, OtherKept
  <2> QED BY <1>1, <2>1, <2>2 DEF SelectedOK
<1>3. ASSUME UNCHANGED <<at, call, todo>> PROVE SelectedOK'
  BY <1>3 DEF SelectedOK
<1> QED BY <1>2, <1>3, NextIs DEF Sample, vars, callVars

\* A call that is still undisturbed after a step was so before, and its sensor's
\* pointer and configuration are as they were unless the step is its own transfer.
LEMMA UndisturbedBefore ==
  ASSUME TypeInv, [Next]_vars, NEW d \in Driver, Undisturbed(d)'
  PROVE  \/ \E c \in uses[d] : Enter(d, c)
         \/ Transfer(d) /\ Undisturbed(d)
         \/ /\ Undisturbed(d)
            /\ call'[d] = call[d] /\ todo'[d] = todo[d] /\ local'[d] = local[d]
            /\ lost'[d] = lost[d] /\ pointer' = pointer
            /\ register'["temp"][1] = register["temp"][1]
<1> USE DEF Undisturbed
<1>1. ASSUME NEW e \in Driver, e # d, DriverStep(e)
      PROVE  /\ Undisturbed(d)
             /\ call'[d] = call[d] /\ todo'[d] = todo[d] /\ local'[d] = local[d]
             /\ lost'[d] = lost[d] /\ pointer' = pointer /\ register' = register
  <2>1. /\ at'[d] = at[d] /\ call'[d] = call[d] /\ todo'[d] = todo[d] /\ local'[d] = local[d]
        /\ lost'[d] = lost[d]
    BY <1>1, OtherKept
  <2>2. Disturb(e) => ~alone'[d]
    BY <1>1 DEF Disturb
  <2>3. (\E c \in uses[e] : Enter(e, c)) \/ Leave(e)
    BY <1>1, <2>2 DEF DriverStep, OpenBus, SetSlave, Transfer
  <2>4. UNCHANGED busVars /\ alone'[d] = alone[d]
    BY <1>1, <2>3 DEF Enter, Leave, Forget, TypeInv, HistoryOK
  <2> QED BY <2>1, <2>4 DEF busVars
<1>2. ASSUME DriverStep(d)
      PROVE  (\E c \in uses[d] : Enter(d, c)) \/ (Transfer(d) /\ Undisturbed(d))
  <2>1. ~(OpenBus(d) \/ SetSlave(d) \/ Leave(d))
    BY DEF TypeInv, BusOK, OpenBus, SetSlave, Leave, Forget
  <2>2. Transfer(d) => Undisturbed(d)
    BY DEF Transfer, Disturb, TypeInv, HistoryOK
  <2>3. (\E c \in uses[d] : Enter(d, c)) \/ Transfer(d)
    BY <1>2, <2>1, Zenon DEF DriverStep
  <2> QED BY <2>2, <2>3
<1>3. ASSUME Sample
      PROVE  /\ Undisturbed(d)
             /\ call'[d] = call[d] /\ todo'[d] = todo[d] /\ local'[d] = local[d]
             /\ lost'[d] = lost[d] /\ pointer' = pointer
             /\ register'["temp"][1] = register["temp"][1]
  <2>1. PICK t \in TempReadings, l \in LightReadings : register' = Measured(register, t, l)
    BY <1>3 DEF Sample
  <2>2. 1 \in 1..3
    OBVIOUS
  <2>3. register'["temp"][1] = register["temp"][1]
    BY <2>1, <2>2, MeasuredTyped DEF TypeInv, BusOK, RegistersOK
  <2> QED BY <1>3, <2>3 DEF Sample, callVars, historyVars
<1>4. ASSUME UNCHANGED vars
      PROVE  /\ Undisturbed(d)
             /\ call'[d] = call[d] /\ todo'[d] = todo[d] /\ local'[d] = local[d]
             /\ lost'[d] = lost[d] /\ pointer' = pointer
             /\ register'["temp"][1] = register["temp"][1]
  BY <1>4 DEF vars, busVars, callVars, historyVars
<1> QED BY <1>1, <1>2, <1>3, <1>4, NextIs

\* A write that selects a register leaves its sensor's pointer there.
LEMMA SelectionPoints ==
  ASSUME TypeInv, NEW d \in Driver, at[d] = "busy", NEW variable,
         Received(d, <<Selection(d, call[d], variable)>>)
  PROVE  pointer'[d] = Target(d, call[d], variable)
<1> DEFINE b == Selection(d, call[d], variable)
           t == Target(d, call[d], variable)
<1>1. call[d] \in CallOf(d)
  BY CallTyped DEF TypeInv
<1>2. <<b>>[1] = b /\ Len(<<b>>) = 1 /\ DOMAIN pointer = Driver
  BY DEF TypeInv, BusOK, RegistersOK
<1>3. CASE d = "temp"
  <2>1. b = t /\ t \in 0..3
    BY <1>1, <1>3, TempRegisters DEF Selection, Target, CallOf
  <2>2. pointer'[d] = b % 4
    BY <1>2, <1>3 DEF Received, ReceivedByTmp102, Driver
  <2> HIDE DEF b, t
  <2>3. b % 4 = t
    BY <2>1
  <2> QED BY <2>2, <2>3 DEF t
<1>4. CASE d = "light"
  <2>1. t \in Int /\ 0 <= t /\ t < 16 /\ (b = 128 + t \/ b = (128 + 32) + t)
    <3>1. ASSUME call[d].name \in Measures PROVE t \in {12, 14} /\ b = (128 + 32) + t
      BY <1>4, <3>1 DEF Selection, Target, DATA0LOW, DATA1LOW, BIT_CMD_SELECT_REG, BIT_WORD_CMD
    <3>2. ASSUME call[d].name \notin Measures PROVE t \in 0..10 /\ b = 128 + t
      <4>1. t = LightRegister[call[d].name] /\ b = 128 + t
        BY <1>4, <3>2 DEF Selection, Target, BIT_CMD_SELECT_REG
      <4>2. call[d] \in LightCall \ [name : Measures, arg : {0}]
        BY <1>1, <1>4, <3>2 DEF CallOf
      <4> QED BY <4>1, <4>2, LightRegisters
    <3> HIDE DEF b, t
    <3> QED BY <3>1, <3>2
  <2>2. pointer'[d] = b % 16 \/ b < 128
    BY <1>2, <1>4 DEF Received, ReceivedByApds9301, Driver, BIT_CMD_SELECT_REG
  <2> HIDE DEF b, t
  <2>3. b >= 128 /\ b % 16 = t
    BY <2>1
  <2> QED BY <2>1, <2>2, <2>3 DEF t
<1> QED BY <1>3, <1>4 DEF Driver

\* A message is not the transfer that writes the configuration back.
LEMMA BytesOfPut ==
  ASSUME NEW d, NEW b
  PROVE  Bytes(d, Put(<<b>>)) = <<b>>
<1>1. Put(<<b>>).length = 1 /\ PutBack.length = 3
  BY DEF Put, PutBack
<1>2. Put(<<b>>) # PutBack
  BY <1>1
<1> QED BY <1>2, Zenon DEF Bytes, Put

\* What a transfer that did not fail did.
LEMMA TransferDone ==
  ASSUME TypeInv, NEW d \in Driver, Transfer(d), status'[d] = 0
  PROVE  LET x == Head(todo[d])   s == slave[i2cHandle]
         IN  /\ s \in Driver /\ x \in TransferOf(d, call[d]) /\ lost'[d] = lost[d]
             /\ x.op = "write" => Received(s, Bytes(d, x))
             /\ x.op = "read" => /\ UNCHANGED <<register, pointer>>
                                 /\ local'[d][x.into] = Assembled(d, x.length, Provided(s))
<1> DEFINE x == Head(todo[d])
           s == slave[i2cHandle]
           v == Assembled(d, x.length, Provided(s))
<1>1. status'[d] # -1 /\ status' # [status EXCEPT ![d] = -1]
  BY DEF TypeInv, CallsOK
<1>2. /\ s # "none" /\ UNCHANGED lost
      /\ \/ x.op = "write" /\ Received(s, Bytes(d, x))
         \/ /\ x.op = "read" /\ UNCHANGED <<register, pointer>>
            /\ local' = [local EXCEPT ![d][x.into] = v]
  BY <1>1 DEF Transfer, Handle
<1>3. at[d] = "busy" /\ todo[d] # <<>>
  BY DEF Transfer
<1>4. x \in TransferOf(d, call[d])
  BY <1>3, HeadTailProperties DEF TypeInv, CallsOK
<1>5. s \in Driver
  BY <1>2, <1>3 DEF TypeInv, BusOK
<1>6. x.op = "read" => x.into \in 1..2
  BY <1>4 DEF TransferOf, Put, PutBack, Get
<1>7. "read" # "write"
  OBVIOUS
<1> HIDE DEF x, s, v
<1>8. ASSUME x.op = "read" PROVE local'[d][x.into] = v
  <2>1. local[d] \in Word \X Word /\ DOMAIN local = Driver
    BY DEF TypeInv, CallsOK
  <2>2. local' = [local EXCEPT ![d][x.into] = v]
    BY <1>2, <1>7, <1>8
  <2> QED BY <1>6, <1>8, <2>1, <2>2
<1>9. /\ s \in Driver /\ x \in TransferOf(d, call[d]) /\ lost'[d] = lost[d]
      /\ x.op = "write" => Received(s, Bytes(d, x))
      /\ x.op = "read" => UNCHANGED <<register, pointer>> /\ local'[d][x.into] = v
  BY <1>2, <1>4, <1>5, <1>7, <1>8
<1> QED BY <1>9 DEF x, s, v

\* A transfer fails or not.
LEMMA TransferOutcome ==
  ASSUME TypeInv, NEW d \in Driver, Transfer(d), lost'[d] = {}
  PROVE  status'[d] = 0 /\ lost[d] = {}
BY TransferEffect

\* The pointer of a clean call stays at the register it selected.
LEMMA PointedNext ==
  ASSUME TypeInv, SelectedOK, PointedOK, [Next]_vars
  PROVE  PointedOK'
<1> SUFFICES ASSUME NEW d \in Driver, Undisturbed(d)', lost'[d] = {}, todo'[d] # <<>>,
                    Head(todo'[d]).op = "read"
             PROVE  pointer'[d] = Target(d, call'[d], Head(todo'[d]).into)
  BY DEF PointedOK
<1>1. ASSUME NEW c \in uses[d], Enter(d, c) PROVE FALSE
  <2>1. todo'[d] = Transfers(d, c)
    BY <1>1 DEF Enter, TypeInv, CallsOK
  <2>2. c \in CallOf(d)
    BY ProgramsAssumption DEF TypeInv, CallsOK, CallOf, Driver
  <2>3. "read" # "write"
    OBVIOUS
  <2> QED BY <2>1, <2>2, <2>3, SelectedInit
<1>2. ASSUME Transfer(d), Undisturbed(d)
      PROVE  pointer'[d] = Target(d, call'[d], Head(todo'[d]).into)
  <2> DEFINE variable == Head(Tail(todo[d])).into
             b == Selection(d, call[d], variable)
  <2>1. at[d] = "busy" /\ call'[d] = call[d] /\ todo'[d] = Tail(todo[d]) /\ todo[d] # <<>>
    BY <1>2, TransferEffect DEF Transfer
  <2>2. todo[d] \in Seq(TransferOf(d, call[d])) /\ Selected(d, call[d], todo[d])
    BY <2>1 DEF TypeInv, CallsOK, SelectedOK
  <2>3. Head(todo[d]) = Put(<<b>>)
    BY <2>1, <2>2, SelectedTail
  <2>4. status'[d] = 0 /\ slave[i2cHandle] = d
    BY <1>2, TransferOutcome DEF Undisturbed
  <2> HIDE DEF b
  <2>5. Received(d, <<b>>)
    BY <1>2, <2>3, <2>4, TransferDone, OpOfPut, BytesOfPut
  <2> QED BY <2>1, <2>5, SelectionPoints DEF b
<1> QED BY <1>1, <1>2, UndisturbedBefore DEF PointedOK

\* What enableShutdown and configConvRate have read so far.
ModifyingOK ==
  Undisturbed("temp") /\ call["temp"].name \in Modifies =>
    LET q == todo["temp"]   config == local["temp"][1]
    IN  \/ q = <<Put(<<1>>), Get(2, 1), PutBack>> /\ config = 0 /\ lost["temp"] = {}
        \/ q = <<Get(2, 1), PutBack>> /\ config = 0 /\ 1 \notin lost["temp"]
        \/ /\ q = <<PutBack>>
           /\ 1 \in lost["temp"] => config = 0
           /\ lost["temp"] = {} => config = register["temp"][1]
        \/ q = <<>>

\* Two bytes in the order the TMP102 sends them, reversed, are the word.
LEMMA WordAssembled ==
  ASSUME NEW w \in Word
  PROVE  InMemory(w % 256, w \div 256) = w
<1>1. w \in Int
  BY WordIs
<1> QED BY <1>1 DEF InMemory

\* A clean read brings what the register meant holds.
LEMMA ReadsOwnValue ==
  ASSUME TypeInv, SelectedOK, PointedOK, NEW d \in Driver, Undisturbed(d), lost[d] = {},
         Transfer(d), status'[d] = 0, Head(todo[d]).op = "read"
  PROVE  local'[d][Head(todo[d]).into] = OwnValue(d, Head(todo[d]).into)
<1> DEFINE x == Head(todo[d])
           p == pointer[d]
           r == register[d]
<1>1. local'[d][x.into] = Assembled(d, x.length, Provided(d))
  BY TransferDone DEF Undisturbed
<1>2. at[d] = "busy" /\ todo[d] # <<>>
  BY DEF Transfer
<1>3. p = Target(d, call[d], x.into)
  BY <1>2 DEF PointedOK
<1>4. x.length = Width(d, call[d]) /\ x.into \in 1..2
  <2>1. Selected(d, call[d], todo[d]) /\ todo[d] \in Seq(TransferOf(d, call[d]))
    BY <1>2 DEF SelectedOK, TypeInv, CallsOK
  <2>2. 1 \in 1..Len(todo[d]) /\ todo[d][1] = x
    BY <1>2, <2>1
  <2> QED BY <2>1, <2>2 DEF Selected
<1>5. call[d] \in CallOf(d)
  BY <1>2, CallTyped DEF TypeInv
<1>6. CASE d = "temp"
  <2>1. r[p] \in Word
    BY <1>6 DEF TypeInv, BusOK, RegistersOK
  <2>2. x.length = 2 /\ p = TempRegister[call[d].name]
    BY <1>3, <1>4, <1>6 DEF Width, Target
  <2>3. Provided(d) = <<r[p] \div 256, r[p] % 256>>
    BY <1>6 DEF Provided
  <2>4. OwnValue(d, x.into) = r[p]
    BY <1>6, <2>2, Zenon DEF OwnValue
  <2> HIDE DEF x, p, r
  <2>5. Assembled(d, 2, <<r[p] \div 256, r[p] % 256>>) = InMemory(r[p] % 256, r[p] \div 256)
    BY <1>6 DEF Assembled
  <2>6. local'[d][x.into] = OwnValue(d, x.into)
    BY <1>1, <2>1, <2>2, <2>3, <2>4, <2>5, WordAssembled
  <2> QED BY <2>6 DEF x
<1>7. CASE d = "light" /\ call[d].name \in Measures
  <2>1. x.length = 2 /\ p \in {12, 14} /\ (p = 12 <=> x.into = 1)
    BY <1>3, <1>4, <1>7 DEF Width, Target, DATA0LOW, DATA1LOW
  <2>2. Provided(d) = <<r[p], r[p + 1]>>
    <3>1. Provided(d) = <<r[p], r[(p + 1) % 16]>>
      BY <1>7 DEF Provided
    <3>2. (12 + 1) % 16 = 12 + 1 /\ (14 + 1) % 16 = 14 + 1
      OBVIOUS
    <3> HIDE DEF p, r
    <3> QED BY <2>1, <3>1, <3>2
  <2>3. OwnValue(d, x.into) = InMemory(r[p], r[p + 1])
    BY <1>3, <1>7, Zenon DEF OwnValue, Target
  <2> HIDE DEF x, p, r
  <2>4. Assembled(d, 2, <<r[p], r[p + 1]>>) = InMemory(r[p], r[p + 1])
    BY <1>7 DEF Assembled
  <2>5. local'[d][x.into] = OwnValue(d, x.into)
    BY <1>1, <2>1, <2>2, <2>3, <2>4
  <2> QED BY <2>5 DEF x
<1>8. CASE d = "light" /\ call[d].name \notin Measures
  <2>1. x.length = 1 /\ p = LightRegister[call[d].name]
    BY <1>3, <1>4, <1>8 DEF Width, Target
  <2>2. OwnValue(d, x.into) = r[p]
    BY <1>8, <2>1, Zenon DEF OwnValue
  <2>3. Provided(d)[1] = r[p]
    BY <1>8 DEF Provided
  <2>4. r[p] \in Int
    <3>1. r[p] \in Byte
      BY <1>8 DEF TypeInv, BusOK, RegistersOK
    <3> QED BY <3>1, ByteIs
  <2> HIDE DEF x, p, r
  <2>5. Assembled(d, 1, Provided(d)) = r[p] + (256 * 0)
    BY <2>3, Zenon DEF Assembled, InMemory
  <2>6. local'[d][x.into] = OwnValue(d, x.into)
    BY <1>1, <2>1, <2>2, <2>4, <2>5
  <2> QED BY <2>6 DEF x
<1> QED BY <1>6, <1>7, <1>8 DEF Driver

\* What a modifying call has read is the configuration still, or 0.
LEMMA ModifyingNext ==
  ASSUME TypeInv, SelectedOK, PointedOK, ModifyingOK, [Next]_vars
  PROVE  ModifyingOK'
<1> SUFFICES ASSUME Undisturbed("temp")', call'["temp"].name \in Modifies
             PROVE  ModifyingOK'
  BY DEF ModifyingOK
<1>d. "temp" \in Driver
  BY DEF Driver
<1>1. ASSUME NEW c \in uses["temp"], Enter("temp", c) PROVE ModifyingOK'
  <2>1. /\ call'["temp"] = c /\ todo'["temp"] = Transfers("temp", c) /\ lost'["temp"] = {}
        /\ local'["temp"] = <<IF c.name = "currentTemperature" THEN Unsigned(cur[c.arg]) ELSE 0, 0>>
    BY <1>1, <1>d DEF TypeInv, CallsOK, Enter
  <2>2. c.name \in Modifies /\ c.name # "currentTemperature"
    BY <2>1 DEF Modifies
  <2>3. local'["temp"][1] = 0
    BY <2>1, <2>2
  <2>4. TempRegister[c.name] = 1
    BY <2>2 DEF Modifies, TempRegister
  <2>5. Transfers("temp", c) = Append(<<Put(<<1>>), Get(2, 1)>>, PutBack)
    BY <2>2, <2>4, Zenon DEF Transfers, TempTransfers, readNTempRegisters
  <2>6. todo'["temp"] = <<Put(<<1>>), Get(2, 1), PutBack>>
    BY <2>1, <2>5, AppendToTwo
  <2> QED BY <2>1, <2>3, <2>6 DEF ModifyingOK
<1>2. ASSUME Transfer("temp"), Undisturbed("temp") PROVE ModifyingOK'
  <2> DEFINE q == todo["temp"]
             x == Head(q)
  <2>1. /\ call'["temp"] = call["temp"] /\ todo'["temp"] = Tail(q) /\ q # <<>>
        /\ \/ /\ status'["temp"] = -1 /\ lost'["temp"] = lost["temp"] \cup {x.into}
              /\ local'["temp"] = local["temp"]
           \/ /\ status'["temp"] = 0 /\ lost'["temp"] = lost["temp"]
              /\ x.op = "write" => local'["temp"] = local["temp"]
    BY <1>2, <1>d, TransferEffect DEF Transfer
  <2>2. call["temp"].name \in Modifies
    BY <2>1
  <2>3. /\ \A bytes : Put(bytes).op = "write" /\ Put(bytes).into = 0
        /\ Get(2, 1).op = "read" /\ Get(2, 1).into = 1
    BY DEF Put, Get
  <2>4. CASE q = <<Put(<<1>>), Get(2, 1), PutBack>> /\ local["temp"][1] = 0 /\ lost["temp"] = {}
    <3>1. x = Put(<<1>>) /\ todo'["temp"] = <<Get(2, 1), PutBack>>
      BY <2>1, <2>4, TailsOfThree
    <3>2. local'["temp"][1] = 0 /\ 1 \notin lost'["temp"]
      BY <2>1, <2>3, <2>4, <3>1
    <3> QED BY <3>1, <3>2 DEF ModifyingOK
  <2>5. CASE q = <<Get(2, 1), PutBack>> /\ local["temp"][1] = 0 /\ 1 \notin lost["temp"]
    <3>1. x = Get(2, 1) /\ todo'["temp"] = <<PutBack>>
      BY <2>1, <2>5, TailsOfTwo
    <3>2. 1 \in lost'["temp"] => local'["temp"][1] = 0
      BY <2>1, <2>3, <2>5, <3>1
    <3>3. ASSUME lost'["temp"] = {} PROVE local'["temp"][1] = register'["temp"][1]
      <4>1. status'["temp"] = 0 /\ lost["temp"] = {}
        BY <1>2, <1>d, <3>3, TransferOutcome
      <4>2. x.op = "read" /\ x.into = 1
        BY <2>3, <3>1
      <4>3. local'["temp"][x.into] = OwnValue("temp", x.into)
        BY <1>2, <1>d, <4>1, <4>2, ReadsOwnValue
      <4>4. TempRegister[call["temp"].name] = 1
        BY <2>2 DEF Modifies, TempRegister
      <4>5. OwnValue("temp", x.into) = register["temp"][1]
        BY <4>4, Zenon DEF OwnValue
      <4>6. register' = register
        BY <1>2, <1>d, <4>1, <4>2, TransferDone
      <4> QED BY <4>2, <4>3, <4>5, <4>6
    <3> QED BY <3>1, <3>2, <3>3 DEF ModifyingOK
  <2>6. CASE q = <<PutBack>>
    <3>1. todo'["temp"] = <<>>
      BY <2>1, <2>6, TailsOfOne
    <3> QED BY <3>1 DEF ModifyingOK
  <2>7. q # <<>>
    BY <2>1
  <2> QED BY <1>2, <2>2, <2>4, <2>5, <2>6, <2>7 DEF ModifyingOK
<1>3. ASSUME Undisturbed("temp"), call'["temp"] = call["temp"], todo'["temp"] = todo["temp"],
             local'["temp"] = local["temp"], lost'["temp"] = lost["temp"],
             register'["temp"][1] = register["temp"][1]
      PROVE  ModifyingOK'
  BY <1>3 DEF ModifyingOK
<1> QED BY <1>1, <1>2, <1>3, <1>d, UndisturbedBefore

\* Degrees is what tempConversion computes.
LEMMA DegreesConverted ==
  ASSUME NEW w \in Word, w % 16 = 0
  PROVE  Degrees(w) = tempConversion(Signed(w))
<1> DEFINE n == Signed(w)
           t == tempConversion(n)
           lo == -128
           hi == 127
           P(c) == IF n < 0 THEN 256 * (-c) <= -n /\ -n < 256 * (-c + 1)
                   ELSE 256 * c <= n /\ n < 256 * (c + 1)
<1>1. n \in Int16
  BY SignedInt16
<1>2. n \in Int /\ -32768 <= n /\ n <= 32767
  BY <1>1, Int16Is
<1>3. t \in Int /\ lo <= t /\ t <= hi
  BY <1>1, ConversionBounds
<1>4. n % 16 = 0
  <2>1. w \in Int /\ 0 <= w /\ w <= 65535
    BY WordIs
  <2> QED BY <2>1 DEF n, Signed
<1> HIDE DEF n
<1>5. PICK k \in Int : n = 16 * k
  <2>1. n = 16 * (n \div 16) /\ n \div 16 \in Int
    BY <1>2, <1>4
  <2> QED BY <2>1
<1>6. P(t)
  <2>1. n \div 16 = k
    BY <1>5
  <2>2. t = IF k < 0 THEN -((-k) \div 16) ELSE k \div 16
    BY <2>1 DEF tempConversion, Truncated
  <2> HIDE DEF t
  <2> QED BY <1>5, <2>2
<1>7. \A c \in Int : P(c) => c = t
  <2> HIDE DEF t
  <2> QED BY <1>2, <1>3, <1>6
<1>8. lo \in Int /\ hi \in Int
  OBVIOUS
<1>9. Degrees(w) = CHOOSE c \in lo..hi : P(c)
  BY Zenon DEF Degrees, n
<1> HIDE DEF lo, hi, P, t
<1>10. t \in lo..hi /\ \A c \in lo..hi : P(c) => c = t
  BY <1>3, <1>7, <1>8
<1>11. (CHOOSE c \in lo..hi : P(c)) = t
  BY <1>6, <1>10
<1> QED BY <1>9, <1>11 DEF n, t
\* The temperature register holds a reading, and so does the variable of a clean
\* currentTemperature that has read it.
MeasuredOK ==
  /\ register["temp"][0] % 16 = 0
  /\ Undisturbed("temp") /\ call["temp"].name = "currentTemperature"
       /\ lost["temp"] = {} /\ todo["temp"] = <<>> => local["temp"][1] % 16 = 0

\* No write reaches the temperature register.
LEMMA TemperatureNotWritten ==
  ASSUME NEW s \in Driver, NEW bytes, RegistersOK, Received(s, bytes)
  PROVE  register'["temp"][0] = register["temp"][0]
<1>1. CASE s = "temp"
  <2> DEFINE p == bytes[1] % 4
  <2>1. UNCHANGED register \/ (p # 0 /\ \E w : register' = [register EXCEPT !["temp"][p] = w])
    BY <1>1 DEF Received, ReceivedByTmp102
  <2> HIDE DEF p
  <2> QED BY <2>1 DEF RegistersOK, Driver
<1>2. CASE s = "light"
  <2>1. register' = register \/ \E p, b : register' = [register EXCEPT !["light"][p] = b]
    BY <1>2 DEF Received, ReceivedByApds9301
  <2> QED BY <2>1 DEF RegistersOK, Driver
<1> QED BY <1>1, <1>2 DEF Driver

\* The temperature register holds twelve bits after every step.
LEMMA RegisterKept ==
  ASSUME TypeInv, register["temp"][0] % 16 = 0, [Next]_vars
  PROVE  register'["temp"][0] % 16 = 0
<1>1. ASSUME NEW d \in Driver, DriverStep(d) PROVE register'["temp"][0] = register["temp"][0]
  <2>1. ASSUME Transfer(d) PROVE register'["temp"][0] = register["temp"][0]
    <3> DEFINE s == slave[i2cHandle]
               bytes == Bytes(d, Head(todo[d]))
    <3>1. UNCHANGED register \/ (s # "none" /\ Received(s, bytes))
      BY <2>1 DEF Transfer, Handle
    <3>2. s \in Driver \cup {"none"}
      BY <2>1 DEF Transfer, TypeInv, BusOK
    <3> HIDE DEF s, bytes
    <3> QED BY <3>1, <3>2, TemperatureNotWritten DEF TypeInv, BusOK
  <2> QED BY <1>1, <2>1 DEF DriverStep, OpenBus, SetSlave, Enter, Leave, Forget, busVars
<1>2. ASSUME Sample PROVE register'["temp"][0] % 16 = 0
  <2>1. PICK t \in TempReadings, l \in LightReadings : register' = Measured(register, t, l)
    BY <1>2 DEF Sample
  <2>2. register'["temp"][0] = t
    BY <2>1 DEF Measured, TypeInv, BusOK, RegistersOK
  <2> QED BY <2>2, ReadingsAssumption
<1>3. ASSUME UNCHANGED vars PROVE register'["temp"][0] % 16 = 0
  BY <1>3 DEF vars, busVars
<1> QED BY <1>1, <1>2, <1>3, NextIs

\* And so does the variable of a clean currentTemperature.
LEMMA MeasuredNext ==
  ASSUME TypeInv, ReadingOK, SelectedOK, PointedOK, MeasuredOK, [Next]_vars
  PROVE  MeasuredOK'
<1>1. register'["temp"][0] % 16 = 0
  BY RegisterKept DEF MeasuredOK
<1> SUFFICES ASSUME Undisturbed("temp")', call'["temp"].name = "currentTemperature",
                    lost'["temp"] = {}, todo'["temp"] = <<>>
             PROVE  local'["temp"][1] % 16 = 0
  BY <1>1 DEF MeasuredOK
<1>d. "temp" \in Driver
  BY DEF Driver
<1>2. ASSUME NEW c \in uses["temp"], Enter("temp", c) PROVE FALSE
  <2>1. call'["temp"] = c /\ todo'["temp"] = Transfers("temp", c)
    BY <1>2, <1>d DEF TypeInv, CallsOK, Enter
  <2>2. Transfers("temp", c) = <<Put(<<0>>), Get(2, 1)>>
    BY <2>1 DEF Transfers, TempTransfers, TempRegister, readNTempRegisters, Modifies
  <2>3. \A a, b : <<a, b>> # <<>>
    OBVIOUS
  <2> QED BY <2>1, <2>2, <2>3
<1>3. ASSUME Transfer("temp"), Undisturbed("temp") PROVE local'["temp"][1] % 16 = 0
  <2> DEFINE x == Head(todo["temp"])
  <2>1. at["temp"] = "busy" /\ call'["temp"] = call["temp"] /\ todo'["temp"] = Tail(todo["temp"])
        /\ todo["temp"] # <<>>
    BY <1>3, <1>d, TransferEffect DEF Transfer
  <2>2. ReadingTemperature
    BY <2>1 DEF ReadingTemperature
  <2>3. todo["temp"] \in {<<Put(<<0>>), Get(2, 1)>>, <<Get(2, 1)>>}
    BY <2>1, <2>2 DEF ReadingOK
  <2>4. todo["temp"] = <<Get(2, 1)>>
    <3>1. \A a, b : Tail(<<a, b>>) # <<>>
      BY TailsOfTwo
    <3> QED BY <2>1, <2>3, <3>1
  <2>5. x.op = "read" /\ x.into = 1
    BY <2>4, TailsOfOne DEF Get
  <2>6. status'["temp"] = 0 /\ lost["temp"] = {}
    BY <1>3, <1>d, TransferOutcome
  <2>7. local'["temp"][1] = OwnValue("temp", 1)
    BY <1>3, <1>d, <2>5, <2>6, ReadsOwnValue
  <2>8. OwnValue("temp", 1) = register["temp"][0]
    <3>1. TempRegister[call["temp"].name] = 0
      BY <2>2 DEF ReadingTemperature, TempRegister
    <3> QED BY <3>1, Zenon DEF OwnValue
  <2> QED BY <2>7, <2>8 DEF MeasuredOK
<1>4. ASSUME Undisturbed("temp"), call'["temp"] = call["temp"], todo'["temp"] = todo["temp"],
             local'["temp"] = local["temp"], lost'["temp"] = lost["temp"]
      PROVE  local'["temp"][1] % 16 = 0
  BY <1>4 DEF MeasuredOK
<1> QED BY <1>2, <1>3, <1>4, <1>d, UndisturbedBefore

\* The strengthened invariant.
CleanInv == SensorInv /\ SelectedOK /\ PointedOK /\ ModifyingOK /\ MeasuredOK

\* The strengthened invariant holds in every reachable state.
THEOREM CleanInvariant == Spec => []CleanInv
<1>1. Init => SelectedOK /\ PointedOK /\ ModifyingOK
  BY DEF Init, SelectedOK, PointedOK, ModifyingOK, Undisturbed, Driver
<1>2. Init => MeasuredOK
  <2> SUFFICES ASSUME Init PROVE MeasuredOK
    OBVIOUS
  <2>1. PICK t \in TempReadings, l \in LightReadings : register = Measured(PowerOn, t, l)
    BY DEF Init
  <2>2. register["temp"][0] = t
    BY <2>1, PowerOnTyped DEF Measured
  <2>3. ~Undisturbed("temp")
    BY DEF Init, Undisturbed, Driver
  <2> QED BY <2>2, <2>3, ReadingsAssumption DEF MeasuredOK
<1>3. CleanInv /\ [Next]_vars => SelectedOK' /\ PointedOK' /\ ModifyingOK' /\ MeasuredOK'
  BY SelectedNext, PointedNext, ModifyingNext, MeasuredNext DEF CleanInv, SensorInv
<1> QED BY <1>1, <1>2, <1>3, SensorsInvariant, PTL DEF Spec, CleanInv

\* In a clean call every read brings the register meant in the right byte order,
\* and a temperature is reported in the unit asked for (temp_driver.c:154, 245,
\* 327; light_driver.c:199), for all programs and readings.
THEOREM CleanCallsAreRightHolds == Spec => CleanCallsAreRight
<1> DEFINE Reads(d) ==
             Clean(d) /\ status'[d] = 0 /\ todo[d] # todo'[d] /\ at[d] = "busy" =>
               LET x == Head(todo[d])
               IN  x.op = "read" => local'[d][x.into] = OwnValue(d, x.into)
           Reports ==
             Leaves("temp", "currentTemperature") /\ Clean("temp") =>
               LET units == call["temp"].arg
               IN  cur'[units] = InUnit(units, Degrees(local["temp"][1]))
<1>1. CleanInv /\ [Next]_vars => [(\A d \in Driver : Reads(d)) /\ Reports]_vars
  <2> SUFFICES ASSUME CleanInv, TypeInv, Next
               PROVE  (\A d \in Driver : Reads(d)) /\ Reports
    BY DEF CleanInv, SensorInv
  <2>1. ASSUME NEW d \in Driver, Clean(d), status'[d] = 0, todo[d] # todo'[d], at[d] = "busy",
               Head(todo[d]).op = "read"
        PROVE  local'[d][Head(todo[d]).into] = OwnValue(d, Head(todo[d]).into)
    <3>1. Undisturbed(d) /\ lost[d] = {}
      BY <2>1 DEF Clean, Undisturbed
    <3>2. Transfer(d)
      <4>1. ~Sample /\ \A e \in Driver \ {d} : ~DriverStep(e)
        BY <2>1, OtherKept DEF Sample, callVars
      <4>2. DriverStep(d)
        BY <4>1, NextIs
      <4>3. ~OpenBus(d) /\ ~SetSlave(d) /\ ~Leave(d) /\ \A c \in uses[d] : ~Enter(d, c)
        BY <2>1 DEF OpenBus, SetSlave, Enter, Leave, Forget
      <4> QED BY <4>2, <4>3 DEF DriverStep
    <3> QED BY <2>1, <3>1, <3>2, ReadsOwnValue DEF CleanInv
  <2>2. ASSUME Leaves("temp", "currentTemperature"), Clean("temp")
        PROVE  cur'[call["temp"].arg] = InUnit(call["temp"].arg, Degrees(local["temp"][1]))
    <3> DEFINE u == call["temp"].arg
               w == local["temp"][1]
    <3>1. Leave("temp")
      <4>1. ~DriverStep("light") /\ ~Sample
        BY <2>2, OtherKept DEF Leaves, Driver, Sample, callVars
      <4>2. DriverStep("temp")
        BY <4>1, NextIs DEF Driver
      <4> QED BY <2>2, <4>2 DEF DriverStep, OpenBus, SetSlave, Enter, Transfer, Leaves,
           TypeInv, BusOK
    <3>2. at["temp"] = "busy" /\ todo["temp"] = <<>>
      BY <3>1 DEF Leave
    <3>3. Undisturbed("temp") /\ lost["temp"] = {} /\ call["temp"].name = "currentTemperature"
      BY <2>2, <3>2 DEF Clean, Undisturbed, Leaves
    <3>4. w \in Word /\ w % 16 = 0
      BY <3>2, <3>3 DEF CleanInv, MeasuredOK, TypeInv, CallsOK, Driver
    <3>5. call["temp"] = [name |-> "currentTemperature", arg |-> u] /\ u \in Unit
      <4>1. call["temp"] \in TempCall
        BY <3>2, CallTyped DEF TypeInv, CallOf, Driver
      <4> QED BY <3>3, <4>1 DEF TempCall
    <3>6. cur'[u] = Reported(u, Signed(w))
      BY <3>1, <3>5 DEF Leave, Converted
    <3>7. Reported(u, Signed(w)) = InUnit(u, tempConversion(Signed(w)))
      BY Zenon DEF Reported
    <3> HIDE DEF u, w
    <3>8. cur'[u] = InUnit(u, Degrees(w))
      BY <3>4, <3>6, <3>7, DegreesConverted
    <3> QED BY <3>8 DEF u, w
  <2> QED BY <2>1, <2>2
<1> QED BY <1>1, CleanInvariant, PTL DEF Spec, CleanCallsAreRight

\* The other bits of a word stay when a field of it is set.
LEMMA FieldSet ==
  ASSUME NEW w \in Word, NEW c \in TempCall, c.name \in Modifies
  PROVE  Modified(c, w) \in Word /\ OnlyItsBits(c, w, Modified(c, w))
<1>1. w \in Int /\ 0 <= w /\ w <= 65535
  BY WordIs
<1>2. CASE c.name = "enableShutdown"
  <2>1. c.arg \in 0..1
    BY <1>2 DEF TempCall
  <2> DEFINE v == c.arg
             n == SetField(w, 256, 2, v)
  <2>2. Modified(c, w) = n
    BY <1>2 DEF Modified
  <2>3. v \in Int /\ 0 <= v /\ v <= 1
    BY <2>1
  <2> HIDE DEF v
  <2>4. (n \div 256) % 2 = v /\ n \div 512 = w \div 512 /\ n % 256 = w % 256
    BY <1>1, <2>3 DEF SetField
  <2>5. n \in Word
    BY <2>1, SetShutdown DEF v
  <2>6. 256 * 2 = 512
    OBVIOUS
  <2> QED BY <1>2, <2>2, <2>4, <2>5, <2>6, Zenon DEF OnlyItsBits, v
<1>3. CASE c.name = "configConvRate"
  <2>1. c.arg \in 0..3
    BY <1>3 DEF TempCall
  <2> DEFINE v == c.arg
             n == SetField(w, 64, 4, v)
  <2>n. c.name # "enableShutdown"
    BY <1>3
  <2>2. Modified(c, w) = n
    BY <2>n, Zenon DEF Modified
  <2>3. v \in Int /\ 0 <= v /\ v <= 3
    BY <2>1
  <2> HIDE DEF v
  <2>4. (n \div 64) % 4 = v /\ n \div 256 = w \div 256 /\ n % 64 = w % 64
    BY <1>1, <2>3 DEF SetField
  <2>5. n \in Word
    BY <2>1, SetRate DEF v
  <2>6. 64 * 4 = 256
    OBVIOUS
  <2>7. \A new : OnlyItsBits(c, w, new)
          <=> /\ (new \div 64) % 4 = c.arg
              /\ new \div (64 * 4) = w \div (64 * 4)
              /\ new % 64 = w % 64
    BY <2>n, Zenon DEF OnlyItsBits
  <2>8. OnlyItsBits(c, w, n)
    BY <2>4, <2>6, <2>7 DEF v
  <2> QED BY <2>2, <2>5, <2>8
<1> QED BY <1>2, <1>3 DEF Modifies

\* What is written back becomes the configuration.
LEMMA ConfigWritten ==
  ASSUME RegistersOK, call["temp"] \in TempCall, NEW w \in Word,
         Received("temp", <<1, w \div 256, w % 256>>)
  PROVE  register'["temp"][1] = w
<1> DEFINE bytes == <<1, w \div 256, w % 256>>
<1>1. bytes[1] = 1 /\ bytes[2] = w \div 256 /\ bytes[3] = w % 256 /\ Len(bytes) = 3
  OBVIOUS
<1>2. 1 % 4 = 1
  OBVIOUS
<1> HIDE DEF bytes
<1>3. register' = [register EXCEPT !["temp"][1] = InMemory(w % 256, w \div 256)]
  BY <1>1, <1>2 DEF bytes, Received, ReceivedByTmp102
<1> QED BY <1>3, WordAssembled DEF RegistersOK, Driver

\* PutBack is only in the calls that modify the configuration.
LEMMA PutBackModifies ==
  ASSUME TypeInv, NEW d \in Driver, at[d] = "busy", todo[d] = <<PutBack>>
  PROVE  d = "temp" /\ call[d].name \in Modifies
<1>1. PutBack \in TransferOf(d, call[d])
  <2>1. todo[d] \in Seq(TransferOf(d, call[d])) /\ Len(todo[d]) = 1 /\ todo[d][1] = PutBack
    BY DEF TypeInv, CallsOK
  <2> QED BY <2>1
<1>2. \A bytes \in Message : Put(bytes) # PutBack
  <2>1. ASSUME NEW bytes \in Message PROVE Put(bytes) # PutBack
    <3>1. bytes # <<>>
      <4>1. Len(bytes) \in 1..3
        BY DEF Message
      <4>2. Len(<<>>) = 0
        BY EmptySeq
      <4> QED BY <4>1, <4>2
    <3>2. Put(bytes).bytes = bytes /\ PutBack.bytes = <<>>
      BY DEF Put, PutBack
    <3> QED BY <3>1, <3>2
  <2> QED BY <2>1
<1>3. \A n, variable : Get(n, variable) # PutBack
  <2>1. \A n, variable : Get(n, variable).op = "read" /\ PutBack.op = "write"
    BY DEF Get, PutBack
  <2>2. "read" # "write"
    OBVIOUS
  <2> QED BY <2>1, <2>2
<1> QED BY <1>1, <1>2, <1>3 DEF TransferOf

\* Every function of the temperature driver talks to its sensor.
LEMMA TempTransfersSome == \A e : TempTransfers(e) # <<>>
<1> TAKE e
<1> DEFINE a == TempRegister[e.name]
<1>1. \A p, q : <<p>> # <<>> /\ <<p, q>> # <<>> /\ Append(<<p, q>>, PutBack) # <<>>
  <2>1. \A p, q : <<p, q, PutBack>> # <<>>
    OBVIOUS
  <2>2. \A p, q : <<p>> # <<>> /\ <<p, q>> # <<>>
    OBVIOUS
  <2> QED BY <2>1, <2>2, AppendToTwo
<1> QED BY <1>1, Zenon DEF TempTransfers, readNTempRegisters, writeNTempRegisters

\* A clean enableShutdown or configConvRate changes only its own bits of the
\* configuration; if only its read failed, it clears the others
\* (temp_driver.c:305, 319).
THEOREM ConfigBitsKeptHolds == Spec => ConfigBitsKept
<1> DEFINE c == call["temp"]
           old == register["temp"][1]
           new == register'["temp"][1]
           v == local["temp"][1]
           Kept == todo["temp"] = <<PutBack>> /\ todo'["temp"] = <<>> /\ status'["temp"] = 0
                     /\ alone["temp"] /\ slave[i2cHandle] = "temp" =>
                   /\ lost["temp"] = {} => OnlyItsBits(c, old, new)
                   /\ lost["temp"] = {1} => OnlyItsBits(c, 0, new)
<1>1. CleanInv /\ [Next]_vars => [Kept]_vars
  <2> SUFFICES ASSUME CleanInv, TypeInv, Next,
                      todo["temp"] = <<PutBack>>, todo'["temp"] = <<>>, status'["temp"] = 0,
                      alone["temp"], slave[i2cHandle] = "temp"
               PROVE  /\ lost["temp"] = {} => OnlyItsBits(c, old, new)
                      /\ lost["temp"] = {1} => OnlyItsBits(c, 0, new)
    BY DEF CleanInv, SensorInv
  <2>d. "temp" \in Driver /\ <<PutBack>> # <<>>
    BY DEF Driver
  <2>1. Transfer("temp")
    <3>1. ~Sample /\ ~DriverStep("light")
      BY <2>d, OtherKept DEF Sample, callVars, Driver
    <3>2. DriverStep("temp")
      BY <3>1, NextIs DEF Driver
    <3>3. ~OpenBus("temp") /\ ~SetSlave("temp") /\ ~Leave("temp")
      BY <2>d DEF OpenBus, SetSlave, Leave
    <3>4. ASSUME NEW e \in uses["temp"], Enter("temp", e) PROVE FALSE
      <4>1. todo'["temp"] = Transfers("temp", e)
        BY <2>d, <3>4 DEF Enter, TypeInv, CallsOK
      <4>2. Transfers("temp", e) # <<>>
        BY TempTransfersSome DEF Transfers
      <4> QED BY <4>1, <4>2
    <3> QED BY <3>2, <3>3, <3>4 DEF DriverStep
  <2>2. at["temp"] = "busy" /\ Undisturbed("temp")
    BY <2>1 DEF Transfer, Undisturbed
  <2>3. c.name \in Modifies /\ c \in TempCall
    BY <2>2, <2>d, PutBackModifies, CallTyped DEF TypeInv, CallOf
  <2>4. Received("temp", Bytes("temp", PutBack))
    <3>1. Head(todo["temp"]) = PutBack
      BY TailsOfOne
    <3>2. PutBack.op = "write"
      BY DEF PutBack
    <3> QED BY <2>1, <2>d, <3>1, <3>2, TransferDone
  <2>5. v \in Word /\ Modified(c, v) \in Word /\ OnlyItsBits(c, v, Modified(c, v))
    <3>1. v \in Word
      BY <2>d DEF TypeInv, CallsOK
    <3> QED BY <2>3, <3>1, FieldSet
  <2>6. new = Modified(c, v)
    <3> DEFINE w == Modified(c, v)
    <3>1. Bytes("temp", PutBack) = <<1, w \div 256, w % 256>>
      BY DEF Bytes, writeNTempRegisters, Put
    <3> HIDE DEF w
    <3>2. w \in Word
      BY <2>5 DEF w
    <3>3. new = w
      BY <2>3, <2>4, <3>1, <3>2, ConfigWritten DEF TypeInv, BusOK
    <3> QED BY <3>3 DEF w
  <2>7. /\ lost["temp"] = {} => v = old
        /\ lost["temp"] = {1} => v = 0
    <3>1. /\ <<PutBack>> # <<Put(<<1>>), Get(2, 1), PutBack>>
          /\ <<PutBack>> # <<Get(2, 1), PutBack>> /\ <<PutBack>> # <<>>
      OBVIOUS
    <3> HIDE DEF v, old
    <3>2. /\ 1 \in lost["temp"] => v = 0
          /\ lost["temp"] = {} => v = old
      BY <2>2, <2>3, <3>1, Zenon DEF CleanInv, ModifyingOK, v, old
    <3> QED BY <3>2
  <2> HIDE DEF c, old, new, v
  <2> QED BY <2>5, <2>6, <2>7
<1> QED BY <1>1, CleanInvariant, PTL DEF Spec, ConfigBitsKept
================================================================================

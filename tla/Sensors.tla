-------------------------------- MODULE Sensors --------------------------------
(***************************************************************************)
(* The two drivers' conversations with their sensors over one I2C bus      *)
(* (src/temp_driver.c and src/light_driver.c below their event loops).     *)
(*                                                                         *)
(* Both files define the global i2cHandle; the linker makes it one         *)
(* variable.  A conversation selects a register with one write and reads   *)
(* it with the next call, and nothing keeps the other thread from the bus  *)
(* in between.  A failed open or ioctl ends the process and is left out.   *)
(***************************************************************************)
EXTENDS SensorMath, Sequences

CONSTANTS
  Programs,       \* each gives, for each driver, the calls its thread makes
  TempReadings,   \* words the temperature register takes
  LightReadings   \* pairs of words the two channels of the light sensor take

\* Each driver serves, or means to serve, the sensor of its own name.
Driver == {"temp", "light"}

\* The functions of the two headers that talk to a sensor, with the arguments
\* their callers may give: a shutdown bit, one of the four rates in steps of
\* 0x40, a byte for the light sensor.
TempCall ==
       [name : {"currentTemperature"},                          arg : Unit]
  \cup [name : {"readConfig", "readTempLow", "readTempHigh"},    arg : {0}]
  \cup [name : {"writeConfig", "writeTempLow", "writeTempHigh"}, arg : Word]
  \cup [name : {"enableShutdown"},                              arg : 0..1]
  \cup [name : {"configConvRate"},                              arg : 0..3]

LightCall ==
       [name : {"isDark", "isBright", "readCtrlReg", "readTimingRegister",
                "readInterruptRegister", "readIDRegister"},      arg : {0}]
  \cup [name : {"writeCtrlReg", "configTiming"},                 arg : Byte]
  \cup [name : {"lightDisableInt"},                             arg : {0}]
  \cup [name : {"lightEnableInt"},                              arg : {1}]

ASSUME ProgramsAssumption ==
  \A p \in Programs : p["temp"] \subseteq TempCall /\ p["light"] \subseteq LightCall

\* A temperature has twelve bits, in the upper part of a word: the code shifts
\* the others away (temp_driver.c:154).
ASSUME ReadingsAssumption ==
  /\ TempReadings \subseteq Word /\ \A t \in TempReadings : t % 16 = 0
  /\ LightReadings \subseteq Word \X Word

VARIABLES
  uses,        \* uses[d]: the functions of its header the thread of d calls
  i2cHandle,   \* the driver whose open() the handle comes from last
  slave,       \* slave[f]: the sensor the descriptor opened by f addresses
  register,    \* register[s]: the words of the TMP102, the bytes of the APDS-9301
  pointer,     \* pointer[s]: the register of s the next read starts from
  at,          \* at[d]: where driver d is
  call,        \* call[d]: the function it is in
  todo,        \* todo[d]: the transfers that function still makes
  local,       \* local[d]: the variables it reads into
  status,      \* status[d]: what the last transfer returned
  cur,         \* cur[u]: curTempCel, curTempFah and curTempKel
  answer,      \* answer[f]: what isDark and isBright returned last
  lost,        \* history: the variables of the call whose read failed; 0 for a write
  alone        \* history: the other driver has done nothing since the call began

busVars == <<uses, i2cHandle, slave, register, pointer>>
callVars == <<at, call, todo, local, status>>
historyVars == <<lost, alone>>
vars == <<busVars, callVars, cur, answer, historyVars>>

(***************************************************************************)
(* The functions of the two drivers as transfers on the bus.               *)
(***************************************************************************)
Put(bytes)   == [op |-> "write", bytes |-> bytes, length |-> Len(bytes), into |-> 0]
Get(n, var)  == [op |-> "read", bytes |-> <<>>, length |-> n, into |-> var]
PutBack      == [op |-> "write", bytes |-> <<>>, length |-> 3, into |-> 0]

\* The register each function is about.
TempRegister ==
  [ currentTemperature |-> 0,
    readConfig |-> 1,  writeConfig |-> 1,  enableShutdown |-> 1,  configConvRate |-> 1,
    readTempLow |-> 2,  writeTempLow |-> 2,
    readTempHigh |-> 3, writeTempHigh |-> 3 ]

LightRegister ==
  [ readCtrlReg |-> 0, writeCtrlReg |-> 0,
    readTimingRegister |-> 1, configTiming |-> 1,
    readInterruptRegister |-> 6, lightEnableInt |-> 6, lightDisableInt |-> 6,
    readIDRegister |-> 10 ]

DATA0LOW == 12
DATA1LOW == 14
BIT_CMD_SELECT_REG == 128
BIT_WORD_CMD == 32

Modifies == {"enableShutdown", "configConvRate"}
Measures == {"isDark", "isBright"}

readNTempRegisters(address) == <<Put(<<address>>), Get(2, 1)>>
writeNTempRegisters(address, w) == <<Put(<<address, w \div 256, w % 256>>)>>

readLightRegisters(address) == <<Put(<<BIT_CMD_SELECT_REG + address>>), Get(1, 1)>>
writeNLightRegisters(address, b) == <<Put(<<BIT_CMD_SELECT_REG + address, b>>)>>
readNLightRegisters(address, var) ==
  <<Put(<<BIT_CMD_SELECT_REG + BIT_WORD_CMD + address>>), Get(2, var)>>

\* The functions that write take the value as an argument, given as a word; an
\* integration time above 2 is refused.
TempTransfers(c) ==
  LET address == TempRegister[c.name]
  IN  IF c.name \in Modifies THEN Append(readNTempRegisters(address), PutBack)
      ELSE IF c.name \in {"writeConfig", "writeTempLow", "writeTempHigh"}
        THEN writeNTempRegisters(address, c.arg)
      ELSE readNTempRegisters(address)

LightTransfers(c) ==
  IF c.name \in Measures
    THEN readNLightRegisters(DATA0LOW, 1) \o readNLightRegisters(DATA1LOW, 2)
  ELSE IF c.name = "configTiming" /\ c.arg > 2 THEN <<>>
  ELSE IF c.name \in {"writeCtrlReg", "configTiming", "lightEnableInt", "lightDisableInt"}
    THEN writeNLightRegisters(LightRegister[c.name], c.arg)
  ELSE readLightRegisters(LightRegister[c.name])

Transfers(d, c) == IF d = "temp" THEN TempTransfers(c) ELSE LightTransfers(c)

\* Wrong variant: the bits are taken in the other byte of the word.
Modified_otherByte(c, config) ==
  IF c.name = "enableShutdown" THEN SetField(config, 1, 2, c.arg)
                               ELSE SetField(config, 16384, 4, c.arg)

\* What enableShutdown and configConvRate make of the configuration word.
Modified(c, config) ==
  IF c.name = "enableShutdown" THEN SetField(config, 256, 2, c.arg)
                               ELSE SetField(config, 64, 4, c.arg)

Bytes(d, transfer) ==
  IF transfer = PutBack
    THEN writeNTempRegisters(1, Modified(call[d], local[d][1]))[1].bytes
    ELSE transfer.bytes

(***************************************************************************)
(* The sensors, as far as the drivers rely on them.                        *)
(***************************************************************************)
\* The TMP102 takes the low two bits of the first byte as its pointer and keeps
\* the temperature itself; what half a word does to a register is not told.
ReceivedByTmp102(bytes) ==
  LET p == bytes[1] % 4
  IN  /\ pointer' = [pointer EXCEPT !["temp"] = p]
      /\ \/ Len(bytes) = 3 /\ p # 0
            /\ register' = [register EXCEPT !["temp"][p] = InMemory(bytes[3], bytes[2])]
         \/ Len(bytes) = 2 /\ p # 0
            /\ register' = [register EXCEPT !["temp"][p] = InMemory(@ % 256, bytes[2])]
         \/ (Len(bytes) # 3 \/ p = 0) /\ UNCHANGED register

\* The APDS-9301 heeds only bytes with the command bit.
ReceivedByApds9301(bytes) ==
  LET p == bytes[1] % 16
  IN  \/ /\ bytes[1] >= BIT_CMD_SELECT_REG
         /\ pointer' = [pointer EXCEPT !["light"] = p]
         /\ register' = IF Len(bytes) = 1 THEN register
                        ELSE [register EXCEPT !["light"][p] = bytes[2]]
      \/ bytes[1] < BIT_CMD_SELECT_REG /\ UNCHANGED <<pointer, register>>

Received(s, bytes) ==
  IF s = "temp" THEN ReceivedByTmp102(bytes) ELSE ReceivedByApds9301(bytes)

\* The TMP102 sends the high byte of a word first, the APDS-9301 the low one.
Provided(s) ==
  LET r == register[s]   p == pointer[s]
  IN  IF s = "temp" THEN <<r[p] \div 256, r[p] % 256>> ELSE <<r[p], r[(p + 1) % 16]>>

\* The registers r after a new measurement.
Measured(r, temp, light) ==
  [ temp  |-> [r["temp"] EXCEPT ![0] = temp],
    light |-> [r["light"] EXCEPT ![12] = light[1] % 256, ![13] = light[1] \div 256,
                                 ![14] = light[2] % 256, ![15] = light[2] \div 256] ]

\* The registers after power-on.
PowerOn ==
  [ temp  |-> [p \in 0..3 |-> IF p = 0 THEN 0 ELSE IF p = 1 THEN 24736
                             ELSE IF p = 2 THEN 19200 ELSE 20480],
    light |-> [p \in 0..15 |-> IF p = 1 THEN 2 ELSE IF p = 10 THEN 80 ELSE 0] ]

\* What the variable a driver reads into should hold afterwards: what its own
\* sensor measured or was configured to.
OwnValue(d, variable) ==
  LET r == register[d]
  IN  IF d = "temp" THEN r[TempRegister[call[d].name]]
      ELSE IF call[d].name \in Measures
        THEN LET p == IF variable = 1 THEN DATA0LOW ELSE DATA1LOW IN InMemory(r[p], r[p + 1])
      ELSE r[LightRegister[call[d].name]]

NoCall == [name |-> "none", arg |-> 0]

(***************************************************************************)
(* Init and the steps of a driver.                                         *)
(***************************************************************************)
Init ==
  /\ uses \in Programs
  /\ i2cHandle = "none"
  /\ slave = [f \in Driver |-> "none"]
  /\ \E t \in TempReadings, l \in LightReadings : register = Measured(PowerOn, t, l)
  /\ pointer = [s \in Driver |-> 0]
  /\ at = [d \in Driver |-> "open"]
  /\ call = [d \in Driver |-> NoCall]
  /\ todo = [d \in Driver |-> <<>>]
  /\ local = [d \in Driver |-> <<0, 0>>]
  /\ status = [d \in Driver |-> 0]
  /\ cur = [u \in Unit |-> 0]
  /\ answer = [f \in Measures |-> FALSE]
  /\ lost = [d \in Driver |-> {}]
  /\ alone = [d \in Driver |-> FALSE]

\* Any step of d disturbs a call the other driver is in.
Disturb(d) == alone' = [e \in Driver |-> alone[e] /\ e = d]

\* Wrong variant: each file keeps a handle of its own.
Handle_static(d) == d

\* The descriptor a call of d uses.
Handle(d) == i2cHandle

\* i2cHandle = open(I2C_FILE, O_RDWR);
OpenBus(d) ==
  /\ at[d] = "open"
  /\ i2cHandle' = d
  /\ at' = [at EXCEPT ![d] = "ioctl"]
  /\ Disturb(d)
  /\ UNCHANGED <<uses, slave, register, pointer, call, todo, local, status, cur, answer, lost>>

\* ioctl(i2cHandle, I2C_SLAVE, ...);
SetSlave(d) ==
  /\ at[d] = "ioctl"
  /\ slave' = [slave EXCEPT ![Handle(d)] = d]
  /\ at' = [at EXCEPT ![d] = "idle"]
  /\ Disturb(d)
  /\ UNCHANGED <<uses, i2cHandle, register, pointer, call, todo, local, status, cur, answer, lost>>

\* currentTemperature reads into the caller's variable itself, every other
\* function into one that starts from 0.
Enter(d, c) ==
  /\ at[d] = "idle"
  /\ at' = [at EXCEPT ![d] = "busy"]
  /\ call' = [call EXCEPT ![d] = c]
  /\ todo' = [todo EXCEPT ![d] = Transfers(d, c)]
  /\ local' = [local EXCEPT ![d] =
       <<IF c.name = "currentTemperature" THEN Unsigned(cur[c.arg]) ELSE 0, 0>>]
  /\ status' = [status EXCEPT ![d] = IF Transfers(d, c) = <<>> THEN -1 ELSE 0]
  /\ lost' = [lost EXCEPT ![d] = {}]
  /\ alone' = [alone EXCEPT ![d] = TRUE]
  /\ UNCHANGED <<busVars, cur, answer>>

\* Wrong variant: the bytes of a word stay in the order they arrive in.
Assembled_inOrder(d, n, bytes) ==
  IF n = 1 THEN InMemory(bytes[1], 0) ELSE InMemory(bytes[1], bytes[2])

\* readNTempRegisters reverses what it reads, the light driver does not.
Assembled(d, n, bytes) ==
  IF n = 1 THEN InMemory(bytes[1], 0)
  ELSE IF d = "temp" THEN InMemory(bytes[2], bytes[1])
  ELSE InMemory(bytes[1], bytes[2])

\* One write() or read().  A failure is the function's own only if it is the
\* last: a register that could not be selected is read all the same.
Transfer(d) ==
  /\ at[d] = "busy"
  /\ todo[d] # <<>>
  /\ todo' = [todo EXCEPT ![d] = Tail(@)]
  /\ Disturb(d)
  /\ LET x == Head(todo[d])   s == slave[Handle(d)]
     IN  \/ /\ status' = [status EXCEPT ![d] = -1]
            /\ lost' = [lost EXCEPT ![d] = @ \cup {x.into}]
            /\ UNCHANGED <<register, pointer, local>>
         \/ /\ s # "none"
            /\ status' = [status EXCEPT ![d] = 0]
            /\ \/ /\ x.op = "write"
                  /\ Received(s, Bytes(d, x))
                  /\ UNCHANGED local
               \/ /\ x.op = "read"
                  /\ local' = [local EXCEPT ![d][x.into] = Assembled(d, x.length, Provided(s))]
                  /\ UNCHANGED <<register, pointer>>
            /\ UNCHANGED lost
  /\ UNCHANGED <<uses, i2cHandle, slave, at, call, cur, answer>>

\* The variables of a call that has returned are gone.
Forget(d) ==
  /\ at' = [at EXCEPT ![d] = "idle"]
  /\ call' = [call EXCEPT ![d] = NoCall]
  /\ local' = [local EXCEPT ![d] = <<0, 0>>]
  /\ status' = [status EXCEPT ![d] = 0]
  /\ lost' = [lost EXCEPT ![d] = {}]
  /\ alone' = [alone EXCEPT ![d] = FALSE]
  /\ UNCHANGED <<busVars, todo>>

\* Wrong variant: a failed reading is not converted.
Converted_checked(d) ==
  [u \in Unit |->
     IF call[d] = [name |-> "currentTemperature", arg |-> u] /\ status[d] = 0
       THEN Reported(u, Signed(local[d][1])) ELSE cur[u]]

\* currentTemperature converts whatever its variable holds.
Converted(d) ==
  [u \in Unit |-> IF call[d] = [name |-> "currentTemperature", arg |-> u]
                    THEN Reported(u, Signed(local[d][1])) ELSE cur[u]]

\* Wrong variant: the first channel is checked and the second is not.
Decided_firstChannel(d, f) ==
  LET intensity == lightSensorLux(local[d][1], local[d][2])
  IN  1 \notin lost[d] /\ IF f = "isDark" THEN Dark(intensity) ELSE Bright(intensity)

\* isDark and isBright say no if the second channel could not be read.
Decided(d, f) ==
  LET intensity == lightSensorLux(local[d][1], local[d][2])
  IN  status[d] = 0 /\ IF f = "isDark" THEN Dark(intensity) ELSE Bright(intensity)

\* The call returns.
Leave(d) ==
  /\ at[d] = "busy"
  /\ todo[d] = <<>>
  /\ cur' = Converted(d)
  /\ answer' = [f \in Measures |-> IF call[d].name = f THEN Decided(d, f) ELSE answer[f]]
  /\ Forget(d)

\* The sensors measure on.
Sample ==
  /\ \E t \in TempReadings, l \in LightReadings : register' = Measured(register, t, l)
  /\ UNCHANGED <<uses, i2cHandle, slave, pointer, callVars, cur, answer, historyVars>>

Next ==
  \/ \E d \in Driver :
       \/ OpenBus(d) \/ SetSlave(d)
       \/ \E c \in uses[d] : Enter(d, c)
       \/ Transfer(d) \/ Leave(d)
  \/ Sample

Spec == Init /\ [][Next]_vars

(***************************************************************************)
(* Properties.                                                             *)
(***************************************************************************)
SensorsTypeOK ==
  /\ i2cHandle \in Driver \cup {"none"}
  /\ slave \in [Driver -> Driver \cup {"none"}]
  /\ register["temp"] \in [0..3 -> Word] /\ register["light"] \in [0..15 -> Byte]
  /\ pointer["temp"] \in 0..3 /\ pointer["light"] \in 0..15
  /\ at \in [Driver -> {"open", "ioctl", "idle", "busy"}]
  /\ \A d \in Driver : call[d] \in uses[d] \cup {NoCall}
  /\ local \in [Driver -> Word \X Word]
  /\ status \in [Driver -> {0, -1}]
  /\ cur \in [Unit -> Int16]
  /\ answer \in [Measures -> BOOLEAN]
  /\ lost \in [Driver -> SUBSET (0..2)] /\ alone \in [Driver -> BOOLEAN]

BothSetUp == \A d \in Driver : at[d] \in {"idle", "busy"}

\* The registers sensor s writes itself, its measurements.
Readings(s) == IF s = "temp" THEN {0} ELSE 12..15

\* Because both drivers use the handle opened last, one of the two sensors gets
\* all transfers once both are set up, and the other none: neither its pointer
\* nor its configuration ever changes again (light_driver.c:4, temp_driver.c:7).
OneSensorServed ==
  [][BothSetUp =>
       /\ UNCHANGED <<i2cHandle, slave>>
       /\ \A s \in Driver : s # slave[i2cHandle] =>
            /\ pointer'[s] = pointer[s]
            /\ \A p \in (DOMAIN register[s]) \ Readings(s) :
                 register'[s][p] = register[s][p]]_vars

Leaves(d, name) == at[d] = "busy" /\ at'[d] = "idle" /\ call[d].name = name

\* The call of d talked to the sensor it meant, undisturbed and without failure.
Clean(d) == alone[d] /\ lost[d] = {} /\ slave[i2cHandle] = d

\* Whole degrees of a reading in the upper twelve bits of a word, towards 0.
Degrees(w) ==
  LET n == Signed(w)
  IN  CHOOSE c \in -128..127 :
        IF n < 0 THEN 256 * (-c) <= -n /\ -n < 256 * (-c + 1)
                 ELSE 256 * c <= n /\ n < 256 * (c + 1)

\* In a clean call a read brings what the register meant holds, in the byte
\* order of its sensor, and a temperature read is reported in the unit asked for
\* (temp_driver.c:154, 245, 327; light_driver.c:199).
CleanCallsAreRight ==
  [][/\ \A d \in Driver :
          Clean(d) /\ status'[d] = 0 /\ todo[d] # todo'[d] /\ at[d] = "busy" =>
            LET x == Head(todo[d])
            IN  x.op = "read" => local'[d][x.into] = OwnValue(d, x.into)
     /\ Leaves("temp", "currentTemperature") /\ Clean("temp") =>
          LET units == call["temp"].arg
          IN  cur'[units] = InUnit(units, Degrees(local["temp"][1]))]_vars

\* A temperature that could not be read is not kept and not flagged: the old
\* value, taken for a raw word, comes out as the freezing point, give or take a
\* degree, in the unit asked for (temp_driver.c:272, 330, 94-97).
Freezing(u) ==
  IF u = UNIT_CELCIUS THEN {0} ELSE IF u = UNIT_FAHRENHEIT THEN {32, 33} ELSE {273, 274}

FailureReadsFreezing ==
  [][Leaves("temp", "currentTemperature") /\ status["temp"] = -1
       => cur'[call["temp"].arg] \in Freezing(call["temp"].arg)]_vars

\* The two channels fail differently: without the second isDark says "light",
\* without the first it says "dark", whatever the other channel holds
\* (light_driver.c:257-258, 261, 290).
LostChannelDecides ==
  [][Leaves("light", "isDark") =>
       /\ 2 \in lost["light"] => ~answer'["isDark"]
       /\ 1 \in lost["light"] /\ 2 \notin lost["light"] => answer'["isDark"]]_vars

\* The field c sets has its value and every other bit of the configuration
\* word `new' is that of `old'; the shutdown bit is D8, the rate is D7 and D6.
OnlyItsBits(c, old, new) ==
  LET low  == IF c.name = "enableShutdown" THEN 256 ELSE 64
      size == IF c.name = "enableShutdown" THEN 2 ELSE 4
  IN  /\ (new \div low) % size = c.arg
      /\ new \div (low * size) = old \div (low * size)
      /\ new % low = old % low

\* A clean enableShutdown or configConvRate changes only its own bits of the
\* configuration; if only its read failed, it clears all the others
\* (temp_driver.c:305, 319).
ConfigBitsKept ==
  [][LET c == call["temp"]   old == register["temp"][1]   new == register'["temp"][1]
     IN  todo["temp"] = <<PutBack>> /\ todo'["temp"] = <<>> /\ status'["temp"] = 0
           /\ alone["temp"] /\ slave[i2cHandle] = "temp" =>
         /\ lost["temp"] = {} => OnlyItsBits(c, old, new)
         /\ lost["temp"] = {1} => OnlyItsBits(c, 0, new)]_vars
================================================================================

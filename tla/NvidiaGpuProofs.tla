--------------------------- MODULE NvidiaGpuProofs ---------------------------
(***************************************************************************)
(* The table of devices and sensors of NvidiaGpu, for any number of        *)
(* devices, any list of kinds and any answers of NVML.                     *)
(***************************************************************************)
EXTENDS NvidiaGpu, SequenceTheorems, TLAPS

-----------------------------------------------------------------------------
(* The inductive invariant *)

NbKinds == Len(Kinds)
Names   == {"none"} \cup {Kinds[x] : x \in 1 .. NbKinds}
Blocks == [dev : Nat, kind : Names, item : Nat]
Data   == [id : Nat, columns : Seq(Blocks)]
Slots  == [fun : Names, data : Data]
Devices == [device : Nat, count : Nat, sensors : [1 .. NbKinds -> Slots]]

Dev(n) == devices[n].device
Fun(n, m) == devices[n].sensors[m].fun
Id(n, m) == devices[n].sensors[m].data.id
Cols(n, m) == devices[n].sensors[m].data.columns

\* Sensors stored in slot n of the table, the device under way included.
Filled(n) ==
    IF n <= device_count THEN devices[n].count
    ELSE IF pc = "sensor" /\ n = slot THEN device_sensors ELSE 0

\* Columns of these sensors.
Total == sensor_count + (IF pc = "sensor" THEN device_total ELSE 0)

ControlInv ==
    /\ TypeOK
    /\ devices \in Seq(Devices)
    /\ allocs \in Nat /\ sensor_count \in Nat
    /\ labels \in Seq(Blocks)
    /\ pc = "init" => i = 0 /\ nvml = "off"
    /\ pc = "sensor" => i < available
    /\ pc \in {"init", "device", "sensor", "use"} => d = 0 /\ s = 0
    /\ pc \in {"init", "device", "sensor", "label"} => current = 0
    /\ pc \in {"init", "device", "sensor"} => labels = <<>>
    /\ pc \in {"label", "get", "clean"} =>
           IF d < device_count THEN s <= devices[d + 1].count ELSE s = 0

\* Each slot has a device of its own, each of its sensors a kind of its own.
TableInv ==
    /\ \A n \in 1 .. device_count :
           Dev(n) < i /\ devices[n].count <= NbKinds
    /\ \A n, n2 \in 1 .. device_count : n < n2 => Dev(n) < Dev(n2)
    /\ pc = "sensor" => /\ Dev(slot) = i
                        /\ \A m \in 1 .. device_sensors :
                               \E x \in 1 .. k : Fun(slot, m) = Kinds[x]
                        /\ device_sensors = 0 => device_total = 0
                        /\ device_total = 0 => device_sensors = 0
    /\ \A n \in 1 .. available :
           \A m, m2 \in 1 .. Filled(n) : Fun(n, m) = Fun(n, m2) => m = m2

\* The columns of a sensor are the different items of its device and kind.
ColumnsInv ==
    \A n \in 1 .. available : \A m \in 1 .. Filled(n) :
        /\ Len(Cols(n, m)) > 0
        /\ \A x \in 1 .. Len(Cols(n, m)) :
               Cols(n, m)[x].dev = Dev(n) /\ Cols(n, m)[x].kind = Fun(n, m)
        /\ \A x, y \in 1 .. Len(Cols(n, m)) :
               Cols(n, m)[x] = Cols(n, m)[y] => x = y

\* off[n][m] columns come before the m-th sensor of slot n.
Layout(off) ==
    /\ off[1][1] = 0
    /\ \A n \in 1 .. device_count : off[n + 1][1] = off[n][Filled(n) + 1]
    /\ off[slot][Filled(slot) + 1] = Total
    /\ \A n \in 1 .. available : \A m \in 1 .. Filled(n) :
           off[n][m + 1] = off[n][m] + Len(Cols(n, m)) /\ off[n][m + 1] <= Total
    /\ \A n, n2 \in 1 .. available :
           \A m \in 1 .. Filled(n), m2 \in 1 .. Filled(n2) :
               n < n2 \/ (n = n2 /\ m < m2) => off[n][m + 1] <= off[n2][m2]
    /\ \A c \in 1 .. Total :
           \E n \in 1 .. available : \E m \in 1 .. Filled(n) :
               c \in off[n][m] + 1 .. off[n][m + 1]

Labelled(c, n, m, off) == labels[c] = Cols(n, m)[c - off[n][m]]

Read(c, n, m, off) ==
    results[c] = [dev |-> Dev(n), kind |-> Fun(n, m),
                  item |-> Cols(n, m)[c - off[n][m]].item, at |-> sample]

\* The walks stand at the columns of the sensor they have come to, and what
\* they have left behind is labelled, or read for this sample.
WalkInv(off) ==
    /\ pc \in {"get", "use"} => Len(labels) = sensor_count
    /\ pc = "label" => Len(labels) = off[d + 1][s + 1]
    /\ pc = "get" => current = off[d + 1][s + 1]
    /\ pc = "use" => current = sensor_count
    /\ pc \in {"label", "get", "use"} =>
           /\ DOMAIN results = 1 .. sensor_count
           /\ \A n \in 1 .. available : \A m \in 1 .. Filled(n) :
                  \A c \in off[n][m] + 1 .. off[n][m + 1] :
                      /\ c <= Len(labels) => Labelled(c, n, m, off)
                      /\ c <= current /\ pc # "label" => Read(c, n, m, off)

Offsets == [1 .. MaxDevices + 1 -> [1 .. NbKinds + 1 -> Nat]]

ColumnInv == \E off \in Offsets : Layout(off) /\ WalkInv(off)

\* The sensor is behind the point that the clean-up has come to.
Ahead(n, m) == n > d + 1 \/ (n = d + 1 /\ m > s)

\* What is allocated belongs to a sensor of the table, which the clean-up has
\* still before it.
LiveInv ==
    /\ \A id \in live : \E n \in 1 .. available : \E m \in 1 .. Filled(n) :
           Id(n, m) = id /\ (pc = "clean" => Ahead(n, m))
    /\ pc = "cleaned" => live = {} /\ nvml = "shut"

IInv == ControlInv /\ TableInv /\ ColumnsInv /\ ColumnInv /\ LiveInv

-----------------------------------------------------------------------------
(* The answers of NVML and what they change in the table *)

LEMMA AnswersType ==
    ASSUME k \in 0 .. NbKinds - 1, NEW answer \in Answers
    PROVE  /\ answer \in Seq(Nat)
           /\ \A x, y \in 1 .. Len(answer) : answer[x] = answer[y] => x = y
           /\ answer # <<>> => Len(answer) > 0
<1>1. /\ NbKinds \in Nat /\ k + 1 \in 1 .. NbKinds /\ kind \in Names
      /\ Items[kind] \in Nat \ {0}
  BY KindsAssumption DEF NbKinds, Names, kind
<1> DEFINE b == Items[kind]
<1>b. b \in Nat
  BY <1>1
<1> HIDE DEF b
<1>2. PICK m \in Nat : /\ answer \in [1 .. m -> 1 .. b]
                       /\ \A x, y \in 1 .. m : x < y => answer[x] < answer[y]
  <2>1. CASE kind = "clock"
    <3>1. PICK m \in 0 .. b : answer \in [1 .. m -> 1 .. b]
      BY <2>1 DEF Answers, ClockAnswers, b
    <3>2. \A x, y \in 1 .. m : x < y => answer[x] < answer[y]
      BY <2>1, <3>1 DEF Answers, ClockAnswers
    <3>3. m \in Nat
      BY <1>b
    <3> QED
      BY <3>1, <3>2, <3>3
  <2>2. CASE kind # "clock"
    <3>1. answer = <<>> \/ answer = [n \in 1 .. b |-> n]
      BY <2>2 DEF Answers, AllOrNothing, b
    <3>2. CASE answer = <<>>
      <4>1. answer \in [1 .. 0 -> 1 .. b]
        BY <3>2
      <4> QED
        BY <4>1
    <3>3. CASE answer = [n \in 1 .. b |-> n]
      BY <1>b, <3>3
    <3> QED
      BY <3>1, <3>2, <3>3
  <2> QED
    BY <2>1, <2>2
<1>4. \A x \in 1 .. m : answer[x] \in Nat
  BY <1>b, <1>2
<1>5. answer \in [1 .. m -> Nat]
  BY <1>2, <1>4
<1>3. answer \in Seq(Nat) /\ Len(answer) = m
  BY <1>5
<1> QED
  BY <1>2, <1>3, <1>4

LEMMA ControlType ==
    ASSUME IInv
    PROVE  /\ NbKinds \in Nat /\ available \in Nat /\ device_count \in Nat
           /\ i \in Nat /\ k \in Nat /\ device_sensors \in Nat
           /\ device_total \in Nat /\ sensor_count \in Nat /\ allocs \in Nat
           /\ d \in Nat /\ s \in Nat /\ current \in Nat
           /\ device_count <= i /\ i <= available /\ d <= device_count
           /\ k <= NbKinds /\ device_sensors <= k
           /\ available <= MaxDevices /\ MaxDevices \in Nat
  BY KindsAssumption DEF IInv, ControlInv, TypeOK, NbKinds

LEMMA TableType ==
    ASSUME IInv
    PROVE  /\ devices \in Seq(Devices) /\ Len(devices) = available
           /\ labels \in Seq(Blocks)
  BY DEF IInv, ControlInv, TypeOK

LEMMA DeviceType ==
    ASSUME IInv, NEW n \in 1 .. available
    PROVE  /\ devices[n] \in Devices
           /\ Dev(n) \in Nat /\ devices[n].count \in Nat
           /\ Filled(n) \in 0 .. NbKinds
           /\ \A m \in 1 .. NbKinds :
                 /\ devices[n].sensors[m] \in Slots
                 /\ Fun(n, m) \in Names /\ Id(n, m) \in Nat
                 /\ Cols(n, m) \in Seq(Blocks)
<1>1. devices[n] \in Devices
  BY TableType
<1>2. Dev(n) \in Nat /\ devices[n].count \in Nat
  BY <1>1 DEF Devices, Dev
<1>3. ASSUME NEW m \in 1 .. NbKinds
      PROVE  /\ devices[n].sensors[m] \in Slots
             /\ Fun(n, m) \in Names /\ Id(n, m) \in Nat
             /\ Cols(n, m) \in Seq(Blocks)
  BY <1>1 DEF Devices, Slots, Data, Fun, Id, Cols
<1>4. Filled(n) \in 0 .. NbKinds
  BY <1>2, ControlType DEF Filled, IInv, TableInv
<1> QED
  BY <1>1, <1>2, <1>3, <1>4

\* The sensors stored in the table stay what they are.
Kept ==
    /\ devices' \in Seq(Devices) /\ Len(devices') = Len(devices)
    /\ \A n \in 1 .. available :
           /\ Dev(n)' = Dev(n) /\ devices'[n].count = devices[n].count
           /\ \A m \in 1 .. Filled(n) :
                  devices'[n].sensors[m] = devices[n].sensors[m]

\* A sensor that answers goes behind those of its device.
Found(answer) ==
    /\ device_sensors' = device_sensors + 1
    /\ device_total' = device_total + Len(answer)
    /\ allocs' = allocs + 1 /\ live' = live \cup {allocs + 1}
    /\ devices'[slot].sensors[device_sensors + 1] =
           [fun |-> kind, data |-> DataBlock(answer)]

LEMMA SensorType ==
    ASSUME IInv, k \in 0 .. NbKinds - 1, pc = "sensor", NEW answer \in Answers
    PROVE  /\ DataBlock(answer).id = allocs + 1
           /\ DataBlock(answer).columns \in Seq(Blocks)
           /\ Len(DataBlock(answer).columns) = Len(answer)
           /\ \A x \in 1 .. Len(answer) :
                 DataBlock(answer).columns[x] =
                    [dev |-> Dev(slot), kind |-> kind, item |-> answer[x]]
           /\ DataBlock(answer) \in Data
           /\ kind \in Names
<1>1. answer \in Seq(Nat) /\ Len(answer) \in Nat
  BY AnswersType
<1>2. kind \in Names
  BY KindsAssumption DEF kind, NbKinds, Names
<1>3. slot \in 1 .. available
  BY ControlType DEF IInv, ControlInv, slot
<1>4. Dev(slot) \in Nat
  BY <1>3, DeviceType
<1> DEFINE cols == [n \in 1 .. Len(answer) |->
                      [dev |-> devices[slot].device, kind |-> kind,
                       item |-> answer[n]]]
<1>5. ASSUME NEW x \in 1 .. Len(answer)
      PROVE  /\ cols[x] = [dev |-> Dev(slot), kind |-> kind, item |-> answer[x]]
             /\ cols[x] \in Blocks
  BY <1>1, <1>2, <1>4 DEF Dev, Blocks
<1>7. DataBlock(answer) = [id |-> allocs + 1, columns |-> cols]
  BY DEF DataBlock
<1>9. cols \in [1 .. Len(answer) -> Blocks]
  BY <1>5
<1> HIDE DEF cols
<1>6. cols \in Seq(Blocks) /\ Len(cols) = Len(answer)
  BY <1>1, <1>9
<1>8. DataBlock(answer) \in Data
  BY <1>6, <1>7, ControlType DEF Data
<1> QED
  BY <1>2, <1>5, <1>6, <1>7, <1>8

LEMMA SensorEffect ==
    ASSUME IInv, InitSensor
    PROVE  /\ Kept
           /\ \/ UNCHANGED <<device_sensors, device_total, allocs, live>>
              \/ \E answer \in Answers : answer # <<>> /\ Found(answer)
<1>0. k \in 0 .. NbKinds - 1 /\ pc = "sensor"
  BY ControlType DEF InitSensor, NbKinds
<1>1. slot \in 1 .. available
  BY <1>0, ControlType DEF IInv, ControlInv, slot
<1> DEFINE j == device_sensors + 1
           sens == devices[slot].sensors
<1>2. /\ devices \in Seq(Devices) /\ Len(devices) = available
      /\ devices[slot] \in Devices /\ sens \in [1 .. NbKinds -> Slots]
      /\ j \in 1 .. NbKinds
  <2>1. devices \in Seq(Devices) /\ Len(devices) = available
    BY TableType
  <2>2. devices[slot] \in Devices
    BY <1>1, <2>1
  <2>3. j \in 1 .. NbKinds
    BY <1>0, ControlType
  <2> QED
    BY <2>1, <2>2, <2>3 DEF Devices
<1>3. PICK answer \in Answers :
        /\ devices' = [devices EXCEPT ![slot].sensors[j] =
                         [fun |-> kind,
                          data |-> IF answer # <<>> THEN DataBlock(answer)
                                                    ELSE @.data]]
        /\ device_sensors' = device_sensors + (IF answer # <<>> THEN 1 ELSE 0)
        /\ device_total' = device_total + Len(answer)
        /\ allocs' = allocs + (IF answer # <<>> THEN 1 ELSE 0)
        /\ live' = IF answer # <<>> THEN live \cup {allocs + 1} ELSE live
  BY DEF InitSensor
<1> DEFINE v == [fun |-> kind,
                 data |-> IF answer # <<>> THEN DataBlock(answer)
                                           ELSE sens[j].data]
<1>4. v \in Slots
  <2>1. sens[j].data \in Data
    BY <1>2 DEF Slots
  <2> QED
    BY <1>0, <2>1, SensorType DEF Slots
<1>5. /\ Len(devices') = available /\ devices' \in Seq(Devices)
      /\ \A n \in 1 .. available : n # slot => devices'[n] = devices[n]
      /\ devices'[slot].device = devices[slot].device
      /\ devices'[slot].count = devices[slot].count
      /\ devices'[slot].sensors = [sens EXCEPT ![j] = v]
  <2> DEFINE new == [devices[slot] EXCEPT !.sensors = [sens EXCEPT ![j] = v]]
  <2>1. devices' = [devices EXCEPT ![slot] = new]
    BY <1>1, <1>2, <1>3
  <2> HIDE DEF v
  <2>2. [sens EXCEPT ![j] = v] \in [1 .. NbKinds -> Slots]
    BY <1>2, <1>4
  <2>3. /\ new \in Devices /\ new.device = devices[slot].device
        /\ new.count = devices[slot].count
        /\ new.sensors = [sens EXCEPT ![j] = v]
    BY <1>2, <2>2 DEF Devices
  <2> HIDE DEF new
  <2> QED
    BY <1>1, <1>2, <2>1, <2>3
<1>6. devices'[slot].sensors[j] = v
      /\ \A m \in 1 .. NbKinds : m # j => devices'[slot].sensors[m] = sens[m]
  <2> HIDE DEF v
  <2> QED
    BY <1>2, <1>5
<1>7. Kept
  <2>1. Filled(slot) = device_sensors
    BY <1>0, ControlType DEF Filled, slot
  <2>2. ASSUME NEW n \in 1 .. available, NEW m \in 1 .. Filled(n)
        PROVE  devices'[n].sensors[m] = devices[n].sensors[m]
    <3>1. CASE n = slot
      <4>1. m \in 1 .. NbKinds /\ m # j
        <5>1. m \in 1 .. device_sensors
          BY <2>1, <3>1
        <5> QED
          BY <5>1, ControlType
      <4> QED
        BY <1>6, <3>1, <4>1
    <3>2. CASE n # slot
      BY <1>5, <3>2
    <3> QED
      BY <3>1, <3>2
  <2>3. ASSUME NEW n \in 1 .. available
        PROVE  Dev(n)' = Dev(n) /\ devices'[n].count = devices[n].count
    BY <1>5, <2>3 DEF Dev
  <2> QED
    BY <1>2, <1>5, <2>2, <2>3 DEF Kept
<1>8. CASE answer # <<>>
  BY <1>3, <1>6, <1>7, <1>8 DEF Found
<1>9. CASE answer = <<>>
  <2>1. Len(answer) = 0
    BY <1>9
  <2> QED
    BY <1>3, <1>7, <1>9, <2>1, ControlType
<1> QED
  BY <1>8, <1>9

LEMMA InitIInv == Init => IInv
<1> SUFFICES ASSUME Init PROVE IInv
  OBVIOUS
<1>0. NbKinds \in Nat /\ MaxDevices \in Nat
  BY KindsAssumption DEF NbKinds
<1>1. ControlInv
  BY <1>0 DEF Init, ControlInv, TypeOK, NbKinds
<1>2. \A n : n \in 1 .. available => FALSE
  BY DEF Init
<1>3. TableInv /\ ColumnsInv /\ LiveInv
  BY <1>2 DEF Init, TableInv, ColumnsInv, LiveInv
<1>4. ColumnInv
  <2>1. PICK off \in Offsets :
            off = [n \in 1 .. MaxDevices + 1 |-> [m \in 1 .. NbKinds + 1 |-> 0]]
    BY DEF Offsets
  <2>2. off[1][1] = 0
    BY <1>0, <2>1
  <2>3. slot = 1 /\ Filled(1) = 0 /\ Total = 0
    BY DEF Init, slot, Filled, Total
  <2>4. Layout(off)
    BY <1>2, <2>2, <2>3 DEF Layout, Init
  <2>5. WalkInv(off)
    BY DEF WalkInv, Init
  <2> QED
    BY <2>4, <2>5 DEF ColumnInv
<1> QED
  BY <1>1, <1>3, <1>4 DEF IInv

LEMMA LayoutKept ==
    ASSUME NEW off, Layout(off), UNCHANGED <<available, device_count>>,
           Total' = Total, slot' = slot, Filled(slot)' = Filled(slot),
           \A n \in 1 .. available : Filled(n)' = Filled(n),
           \A n \in 1 .. device_count : Filled(n)' = Filled(n),
           \A n \in 1 .. available : \A m \in 1 .. Filled(n) :
               Cols(n, m)' = Cols(n, m)
    PROVE  Layout(off)'
<1>1. off[1][1] = 0 /\ off[slot'][Filled(slot)' + 1] = Total'
  BY DEF Layout
<1>2. \A n \in 1 .. device_count : off[n + 1][1] = off[n][Filled(n)' + 1]
  BY DEF Layout
<1>3. \A n \in 1 .. available : \A m \in 1 .. Filled(n)' :
          /\ off[n][m + 1] = off[n][m] + Len(Cols(n, m)')
          /\ off[n][m + 1] <= Total
  BY DEF Layout
<1>4. \A n, n2 \in 1 .. available :
          \A m \in 1 .. Filled(n)', m2 \in 1 .. Filled(n2)' :
              n < n2 \/ (n = n2 /\ m < m2) => off[n][m + 1] <= off[n2][m2]
  BY DEF Layout
<1>5. \A c \in 1 .. Total :
          \E n \in 1 .. available : \E m \in 1 .. Filled(n)' :
              c \in off[n][m] + 1 .. off[n][m + 1]
  BY DEF Layout
<1> QED
  BY <1>1, <1>2, <1>3, <1>4, <1>5 DEF Layout

\* After init_nvidia_gpu() nothing is stored any more.
LEMMA Frame ==
    ASSUME UNCHANGED <<building, devices, device_count>>,
           pc = "sensor" <=> pc' = "sensor"
    PROVE  /\ \A n : Filled(n)' = Filled(n)
           /\ Total' = Total /\ slot' = slot
           /\ \A n : Dev(n)' = Dev(n)
           /\ \A n, m : /\ Cols(n, m)' = Cols(n, m) /\ Fun(n, m)' = Fun(n, m)
                        /\ Id(n, m)' = Id(n, m)
           /\ TableInv => TableInv'
           /\ ColumnsInv => ColumnsInv'
           /\ \A off : Layout(off) => Layout(off)'
<1>1. /\ UNCHANGED <<available, i, k, device_sensors, device_total,
                     sensor_count, devices, device_count>>
  BY DEF building
<1>2. /\ \A n : Filled(n)' = Filled(n)
      /\ Total' = Total /\ slot' = slot
      /\ \A n : Dev(n)' = Dev(n)
      /\ \A n, m : /\ Cols(n, m)' = Cols(n, m) /\ Fun(n, m)' = Fun(n, m)
                   /\ Id(n, m)' = Id(n, m)
  BY <1>1 DEF Filled, Total, slot, Dev, Cols, Fun, Id
<1>3. TableInv => TableInv'
  BY <1>1, <1>2 DEF TableInv
<1>4. ColumnsInv => ColumnsInv'
  BY <1>1, <1>2 DEF ColumnsInv
<1>5. \A off : Layout(off) => Layout(off)'
  <2>1. Filled(slot)' = Filled(slot)
    BY <1>2
  <2> QED
    BY <1>1, <1>2, <2>1, LayoutKept
<1> QED
  BY <1>2, <1>3, <1>4, <1>5

LEMMA OffType ==
    ASSUME NEW off \in Offsets, NEW n \in 1 .. MaxDevices + 1,
           NEW m \in 1 .. NbKinds + 1
    PROVE  off[n][m] \in Nat
<1>1. off[n] \in [1 .. NbKinds + 1 -> Nat]
  BY DEF Offsets
<1> QED
  BY <1>1

\* Where a walk stands, a sensor follows that fits in the columns.
LEMMA HereSensor ==
    ASSUME IInv, pc \in {"label", "get", "clean"}, Here
    PROVE  /\ d + 1 \in 1 .. device_count /\ d + 1 \in 1 .. available
           /\ s + 1 \in 1 .. Filled(d + 1) /\ s + 1 \in 1 .. NbKinds
           /\ Filled(d + 1) = devices[d + 1].count
           /\ sensor.data.columns = Cols(d + 1, s + 1)
           /\ sensor.fun = Fun(d + 1, s + 1)
           /\ sensor.data.id = Id(d + 1, s + 1)
           /\ Cols(d + 1, s + 1) \in Seq(Blocks)
           /\ s + 2 <= NbKinds + 1 /\ (s + 1) + 1 = s + 2
<1>1. d + 1 \in 1 .. device_count /\ d + 1 \in 1 .. available
  BY ControlType DEF Here
<1>2. Filled(d + 1) = devices[d + 1].count
  BY <1>1 DEF Filled
<1>3. devices[d + 1].count \in Nat /\ devices[d + 1].count <= NbKinds
  BY <1>1, DeviceType DEF IInv, TableInv
<1>4. s + 1 \in 1 .. Filled(d + 1) /\ s + 1 \in 1 .. NbKinds
  BY <1>2, <1>3, ControlType DEF Here
<1>5. Cols(d + 1, s + 1) \in Seq(Blocks)
  BY <1>1, <1>4, DeviceType
<1>6. /\ sensor.data.columns = Cols(d + 1, s + 1)
      /\ sensor.fun = Fun(d + 1, s + 1)
      /\ sensor.data.id = Id(d + 1, s + 1)
  BY DEF sensor, Cols, Fun, Id
<1>7. s + 2 <= NbKinds + 1 /\ (s + 1) + 1 = s + 2
  <2>1. s \in Nat /\ NbKinds \in Nat
    BY ControlType
  <2> QED
    BY <1>4, <2>1
<1> QED
  BY <1>1, <1>2, <1>4, <1>5, <1>6, <1>7

LEMMA HereColumns ==
    ASSUME IInv, pc \in {"label", "get"}, Here,
           NEW off \in Offsets, Layout(off)
    PROVE  /\ off[d + 1][s + 1] \in Nat /\ off[d + 1][s + 2] \in Nat
           /\ off[d + 1][s + 2] =
                 off[d + 1][s + 1] + Len(Cols(d + 1, s + 1))
           /\ off[d + 1][s + 2] <= sensor_count
<1>1. /\ d + 1 \in 1 .. available /\ s + 1 \in 1 .. Filled(d + 1)
      /\ s + 1 \in 1 .. NbKinds /\ (s + 1) + 1 = s + 2
  BY HereSensor
<1>2. Total = sensor_count
  BY ControlType DEF Total
<1>3. /\ off[d + 1][(s + 1) + 1] =
             off[d + 1][s + 1] + Len(Cols(d + 1, s + 1))
      /\ off[d + 1][(s + 1) + 1] <= Total
  BY <1>1 DEF Layout
<1>4. /\ d + 1 \in 1 .. MaxDevices + 1 /\ s + 1 \in 1 .. NbKinds + 1
      /\ s + 2 \in 1 .. NbKinds + 1
  <2>1. /\ s \in Nat /\ d \in Nat /\ NbKinds \in Nat
        /\ available <= MaxDevices /\ available \in Nat /\ MaxDevices \in Nat
    BY ControlType
  <2> QED
    BY <1>1, <2>1
<1>5. off[d + 1][s + 1] \in Nat /\ off[d + 1][s + 2] \in Nat
  BY <1>4, OffType
<1> QED
  BY <1>1, <1>2, <1>3, <1>5

LEMMA ControlStep == IInv /\ [Next]_vars => ControlInv'
<1> SUFFICES ASSUME IInv, [Next]_vars PROVE ControlInv'
  OBVIOUS
<1> USE DEF building, walk, memory
<1>0. ControlInv /\ TypeOK
  BY DEF IInv, ControlInv
<1>1. CASE NvmlInit
  <2>1. ASSUME available' \in 0 .. MaxDevices,
               devices' = [n \in 1 .. available' |-> EmptyDevice]
        PROVE  devices' \in Seq(Devices) /\ Len(devices') = available'
    <3>1. EmptyDevice \in Devices
      <4>0. NoData \in Data
        BY DEF NoData, Data
      <4>3. "none" \in Names
        BY DEF Names
      <4>2. EmptySlot \in Slots
        BY <4>0, <4>3 DEF EmptySlot, Slots
      <4>1. [n \in 1 .. NbKinds |-> EmptySlot] \in [1 .. NbKinds -> Slots]
        BY <4>2
      <4> QED
        BY <4>1 DEF EmptyDevice, Devices, NbKinds
    <3> HIDE DEF EmptyDevice
    <3> QED
      BY <2>1, <3>1
  <2> QED
    BY <1>0, <1>1, <2>1 DEF NvmlInit, ControlInv, TypeOK, EmptyDevice
<1>2. CASE OpenDevice
  <2>1. CASE UNCHANGED devices
    BY <1>0, <1>2, <2>1, ControlType DEF OpenDevice, ControlInv, TypeOK
  <2>2. CASE devices' = [devices EXCEPT ![slot].device = i]
    <3>1. slot \in 1 .. available /\ i \in Nat
      BY <1>2, ControlType DEF OpenDevice, slot
    <3>2. devices[slot] \in Devices
      BY <3>1, DeviceType
    <3>3. [devices[slot] EXCEPT !.device = i] \in Devices
      BY <3>1, <3>2 DEF Devices
    <3>4. devices' \in Seq(Devices) /\ Len(devices') = available
      BY <2>2, <3>1, <3>3, TableType
    <3> QED
      BY <1>0, <1>2, <3>4 DEF OpenDevice, ControlInv, TypeOK
  <2> QED
    BY <1>2, <2>1, <2>2 DEF OpenDevice
<1>3. CASE InitSensor
  <2>1. Kept
    BY <1>3, SensorEffect
  <2>2. device_sensors' \in {device_sensors, device_sensors + 1}
        /\ device_total' \in Nat /\ allocs' \in Nat
        /\ live' \subseteq 1 .. allocs'
    <3>1. CASE UNCHANGED <<device_sensors, device_total, allocs, live>>
      BY <1>0, <3>1 DEF ControlInv, TypeOK
    <3>2. ASSUME NEW answer \in Answers, Found(answer)
          PROVE  /\ device_sensors' = device_sensors + 1
                 /\ device_total' \in Nat /\ allocs' \in Nat
                 /\ live' \subseteq 1 .. allocs'
      <4>1. Len(answer) \in Nat
        BY <1>3, AnswersType, ControlType DEF InitSensor, NbKinds
      <4> QED
        BY <1>0, <3>2, <4>1 DEF Found, ControlInv, TypeOK
    <3> QED
      BY <1>3, <3>1, <3>2, SensorEffect
  <2>3. k' = k + 1 /\ k' \in 0 .. Len(Kinds) /\ device_sensors' \in 0 .. k'
    <3>1. k' = k + 1 /\ k < Len(Kinds) /\ k \in 0 .. Len(Kinds)
          /\ device_sensors \in 0 .. k
      BY <1>0, <1>3 DEF InitSensor, TypeOK
    <3>2. Len(Kinds) \in Nat
      BY KindsAssumption
    <3> QED
      BY <2>2, <3>1, <3>2
  <2> QED
    BY <1>0, <1>3, <2>1, <2>2, <2>3 DEF InitSensor, ControlInv, TypeOK, Kept
<1>4. CASE EndDevice
  <2>1. /\ devices' = [devices EXCEPT ![slot].count = device_sensors]
        /\ slot \in 1 .. available
    BY <1>0, <1>4, ControlType DEF EndDevice, slot, ControlInv
  <2>2. devices[slot] \in Devices
    BY <2>1, DeviceType
  <2>3. [devices[slot] EXCEPT !.count = device_sensors] \in Devices
    BY <2>2, ControlType DEF Devices
  <2>4. devices' \in Seq(Devices) /\ Len(devices') = available
    BY <2>1, <2>3, TableType
  <2>5. /\ i' \in 0 .. available /\ device_count' \in 0 .. i'
        /\ sensor_count' \in Nat /\ d \in 0 .. device_count'
        /\ current \in 0 .. sensor_count' /\ Len(labels) \in 0 .. sensor_count'
    BY <1>0, <1>4, ControlType DEF EndDevice, ControlInv, TypeOK
  <2> QED
    BY <1>0, <1>4, <2>4, <2>5 DEF EndDevice, ControlInv, TypeOK
<1>5. CASE EndInit
  BY <1>0, <1>5, DeviceType, ControlType DEF EndInit, ControlInv, TypeOK
<1>6. CASE NextDevice
  <2>1. d' \in 0 .. device_count /\ d' = d + 1
    BY <1>6, ControlType DEF NextDevice
  <2>2. d' < device_count => s' <= devices[d' + 1].count
    <3>1. ASSUME d' < device_count PROVE devices[d' + 1].count \in Nat
      <4>1. d' + 1 \in 1 .. available
        BY <2>1, <3>1, ControlType
      <4> QED
        BY <4>1, DeviceType
    <3> QED
      BY <1>6, <3>1 DEF NextDevice
  <2>3. 0 \in 0 .. Len(Kinds)
    BY KindsAssumption
  <2> QED
    BY <1>0, <1>6, <2>1, <2>2, <2>3 DEF NextDevice, ControlInv, TypeOK
<1>7. CASE LabelSensor
  <2>0. pc = "label" /\ Here /\ labels' = labels \o Cols(d + 1, s + 1)
    BY <1>7, HereSensor DEF LabelSensor
  <2>1. PICK off \in Offsets : Layout(off) /\ Len(labels) = off[d + 1][s + 1]
    BY <2>0 DEF IInv, ColumnInv, WalkInv
  <2>2. Cols(d + 1, s + 1) \in Seq(Blocks) /\ labels \in Seq(Blocks)
    BY <2>0, HereSensor, TableType
  <2>3. /\ labels' \in Seq(Blocks)
        /\ Len(labels') = Len(labels) + Len(Cols(d + 1, s + 1))
    BY <2>0, <2>2, ConcatProperties
  <2>4. Len(labels') \in 0 .. sensor_count
    <3>1. /\ off[d + 1][s + 2] \in Nat /\ off[d + 1][s + 2] <= sensor_count
          /\ off[d + 1][s + 2] = off[d + 1][s + 1] + Len(Cols(d + 1, s + 1))
      BY <2>0, <2>1, HereColumns
    <3>2. Len(labels') = off[d + 1][s + 2]
      BY <2>1, <2>3, <3>1
    <3> QED
      BY <3>1, <3>2, ControlType
  <2>5. s + 1 <= devices[d + 1].count /\ s + 1 \in 0 .. Len(Kinds)
    BY <2>0, HereSensor DEF NbKinds
  <2> QED
    BY <1>0, <1>7, <2>0, <2>3, <2>4, <2>5
    DEF LabelSensor, ControlInv, TypeOK, Here
<1>8. CASE GetSensor
  <2>0. pc = "get" /\ Here /\ sensor.data.columns = Cols(d + 1, s + 1)
    BY <1>8, HereSensor DEF GetSensor
  <2>1. CASE pc' = "clean" /\ d' = 0 /\ s' = 0 /\ UNCHANGED <<results, current>>
    BY <1>0, <1>8, <2>1, DeviceType, ControlType
    DEF GetSensor, ControlInv, TypeOK
  <2>2. CASE /\ current' = current + Len(Cols(d + 1, s + 1)) /\ s' = s + 1
             /\ UNCHANGED <<pc, d>>
    <3>1. PICK off \in Offsets : Layout(off) /\ current = off[d + 1][s + 1]
      BY <2>0 DEF IInv, ColumnInv, WalkInv
    <3>2. current' \in 0 .. sensor_count
      <4>1. /\ off[d + 1][s + 2] \in Nat
            /\ off[d + 1][s + 2] <= sensor_count
            /\ off[d + 1][s + 2] = off[d + 1][s + 1] + Len(Cols(d + 1, s + 1))
        BY <2>0, <3>1, HereColumns
      <4>2. current' = off[d + 1][s + 2]
        BY <2>2, <3>1, <4>1
      <4> QED
        BY <4>1, <4>2, ControlType
    <3>3. s + 1 <= devices[d + 1].count /\ s + 1 \in 0 .. Len(Kinds)
      BY <2>0, HereSensor DEF NbKinds
    <3> QED
      BY <1>0, <1>8, <2>0, <2>2, <3>2, <3>3
      DEF GetSensor, ControlInv, TypeOK, Here
  <2> QED
    BY <1>8, <2>0, <2>1, <2>2 DEF GetSensor
<1>9. CASE EndWalk
  BY <1>0, <1>9, DeviceType, ControlType DEF EndWalk, ControlInv, TypeOK
<1>10. CASE UseValues
  BY <1>0, <1>10, DeviceType, ControlType DEF UseValues, ControlInv, TypeOK
<1>11. CASE CleanSensor
  <2>1. s + 1 <= devices[d + 1].count /\ s + 1 \in 0 .. Len(Kinds)
    BY <1>11, HereSensor DEF NbKinds, CleanSensor
  <2> QED
    BY <1>0, <1>11, <2>1 DEF CleanSensor, ControlInv, TypeOK, Here
<1>12. CASE Shutdown
  BY <1>0, <1>12 DEF Shutdown, ControlInv, TypeOK
<1>13. CASE Terminated \/ UNCHANGED vars
  BY <1>0, <1>13 DEF Terminated, vars, ControlInv, TypeOK
<1> QED
  BY <1>1, <1>2, <1>3, <1>4, <1>5, <1>6, <1>7, <1>8, <1>9, <1>10, <1>11,
     <1>12, <1>13 DEF Next

-----------------------------------------------------------------------------
(* What the steps of init_nvidia_gpu() do to the sensors of the table *)

\* The steps that store nothing.
LEMMA Storing ==
    ASSUME [Next]_vars
    PROVE  \/ NvmlInit \/ OpenDevice \/ InitSensor \/ EndDevice
           \/ /\ UNCHANGED <<building, devices, device_count>>
              /\ pc = "sensor" <=> pc' = "sensor"
  BY DEF Next, vars, EndInit, NextDevice, LabelSensor, GetSensor, EndWalk,
     UseValues, CleanSensor, Shutdown, Terminated

\* The sensors of the table, and their number in each slot, are as before.
SameSensors ==
    \A n \in 1 .. available :
        /\ Filled(n)' = Filled(n)
        /\ \A m \in 1 .. NbKinds :
               /\ Fun(n, m)' = Fun(n, m) /\ Cols(n, m)' = Cols(n, m)
               /\ Id(n, m)' = Id(n, m)

LEMMA OpenEffect ==
    ASSUME IInv, OpenDevice
    PROVE  /\ SameSensors /\ UNCHANGED <<available, device_count, sensor_count>>
           /\ slot' = slot /\ Total' = Total
           /\ \A n \in 1 .. device_count : devices'[n] = devices[n]
           /\ \/ pc' = "device" /\ i' = i + 1
              \/ /\ pc' = "sensor" /\ i' = i /\ Dev(slot)' = i
                 /\ device_sensors' = 0 /\ device_total' = 0
<1>0. /\ slot \in 1 .. available /\ pc = "device" /\ device_count \in Nat
      /\ slot' = slot /\ available \in Nat
      /\ UNCHANGED <<available, device_count, sensor_count>>
  BY ControlType DEF OpenDevice, slot
<1>1. CASE UNCHANGED <<pc, devices, device_sensors, device_total>> /\ i' = i + 1
  <2>1. /\ SameSensors /\ \A n \in 1 .. device_count : devices'[n] = devices[n]
    BY <1>0, <1>1 DEF SameSensors, Filled, Fun, Cols, Id
  <2>2. Total' = Total
    BY <1>0, <1>1 DEF Total
  <2> QED
    BY <1>0, <1>1, <2>1, <2>2
<1>2. CASE /\ devices' = [devices EXCEPT ![slot].device = i] /\ i' = i
           /\ device_sensors' = 0 /\ device_total' = 0 /\ pc' = "sensor"
  <2>1. /\ \A n \in 1 .. available : n # slot => devices'[n] = devices[n]
        /\ devices'[slot].device = i
        /\ devices'[slot].count = devices[slot].count
        /\ devices'[slot].sensors = devices[slot].sensors
    <3>1. devices \in Seq(Devices) /\ Len(devices) = available
      BY TableType
    <3>2. devices[slot] \in Devices
      BY <1>0, DeviceType
    <3> DEFINE new == [devices[slot] EXCEPT !.device = i]
    <3>3. devices' = [devices EXCEPT ![slot] = new]
      BY <1>2
    <3>4. /\ new.device = i /\ new.count = devices[slot].count
          /\ new.sensors = devices[slot].sensors
      BY <3>2 DEF Devices
    <3> HIDE DEF new
    <3> QED
      BY <1>0, <3>1, <3>3, <3>4
  <2>2. \A n \in 1 .. available : Filled(n)' = Filled(n)
    BY <1>0, <1>2, <2>1 DEF Filled
  <2>3. \A n \in 1 .. available : devices'[n].sensors = devices[n].sensors
    BY <2>1
  <2>4. SameSensors
    BY <2>2, <2>3 DEF SameSensors, Fun, Cols, Id
  <2>5. \A n \in 1 .. device_count : devices'[n] = devices[n]
    BY <1>0, <2>1, ControlType DEF slot
  <2>6. Total' = Total
    BY <1>0, <1>2, ControlType DEF Total
  <2> QED
    BY <1>0, <1>2, <2>1, <2>4, <2>5, <2>6 DEF Dev
<1> QED
  BY <1>1, <1>2 DEF OpenDevice

LEMMA EndEffect ==
    ASSUME IInv, EndDevice
    PROVE  /\ SameSensors /\ UNCHANGED available /\ slot \in 1 .. available
           /\ Total' = Total /\ i' = i + 1 /\ pc' = "device"
           /\ \A n \in 1 .. available : Dev(n)' = Dev(n)
           /\ Filled(slot) = device_sensors
           /\ \A n \in 1 .. device_count : devices'[n] = devices[n]
           /\ devices'[slot].count = device_sensors
           /\ \/ device_count' = device_count
                 /\ device_sensors = 0 /\ device_total = 0
              \/ device_count' = device_count + 1
<1>0. /\ slot \in 1 .. available /\ pc = "sensor" /\ pc' = "device"
      /\ device_count \in Nat /\ available \in Nat /\ device_sensors \in Nat
      /\ available' = available /\ i' = i + 1
  BY ControlType DEF EndDevice, slot, IInv, ControlInv
<1>1. /\ \A n \in 1 .. available : n # slot => devices'[n] = devices[n]
      /\ devices'[slot].device = devices[slot].device
      /\ devices'[slot].count = device_sensors
      /\ devices'[slot].sensors = devices[slot].sensors
  <2>1. devices \in Seq(Devices) /\ Len(devices) = available
    BY TableType
  <2>2. devices[slot] \in Devices
    BY <1>0, DeviceType
  <2> DEFINE new == [devices[slot] EXCEPT !.count = device_sensors]
  <2>3. devices' = [devices EXCEPT ![slot] = new]
    BY DEF EndDevice
  <2>4. /\ new.device = devices[slot].device /\ new.count = device_sensors
        /\ new.sensors = devices[slot].sensors
    BY <2>2 DEF Devices
  <2> HIDE DEF new
  <2> QED
    BY <1>0, <2>1, <2>3, <2>4
<1>2. \/ device_count' = device_count /\ device_sensors = 0 /\ device_total = 0
      \/ device_count' = device_count + 1 /\ device_total # 0
  <2>1. device_total = 0 => device_sensors = 0
    BY <1>0 DEF IInv, TableInv
  <2> QED
    BY <2>1, ControlType DEF EndDevice
<1>3. Total' = Total
  BY <1>0, ControlType DEF EndDevice, Total
<1>4. Filled(slot) = device_sensors
  BY <1>0 DEF Filled, slot
<1>5. \A n \in 1 .. available : Filled(n)' = Filled(n)
  <2> TAKE n \in 1 .. available
  <2>1. CASE n <= device_count
    <3>1. n # slot /\ n <= device_count'
      BY <1>0, <1>2, <2>1 DEF slot
    <3> QED
      BY <1>1, <2>1, <3>1 DEF Filled
  <2>2. CASE n = slot
    <3>1. CASE device_count' = device_count + 1
      BY <1>1, <1>4, <2>2, <3>1, <1>0 DEF Filled, slot
    <3>2. CASE device_count' = device_count /\ device_sensors = 0
      BY <1>0, <1>4, <2>2, <3>2 DEF Filled, slot
    <3> QED
      BY <1>2, <3>1, <3>2
  <2>3. CASE n > slot
    BY <1>0, <1>2, <2>3 DEF Filled, slot
  <2> QED
    BY <1>0, <2>1, <2>2, <2>3 DEF slot
<1>6. \A n \in 1 .. available : /\ devices'[n].sensors = devices[n].sensors
                               /\ devices'[n].device = devices[n].device
  BY <1>1
<1>7. SameSensors /\ \A n \in 1 .. available : Dev(n)' = Dev(n)
  BY <1>5, <1>6 DEF SameSensors, Fun, Cols, Id, Dev
<1>8. \A n \in 1 .. device_count : devices'[n] = devices[n]
  BY <1>0, <1>1 DEF slot
<1> QED
  BY <1>0, <1>1, <1>2, <1>3, <1>4, <1>7, <1>8

\* The sensors stored before stay, and the new one, if any, is the last of its
\* device.
LEMMA NewSensor ==
    ASSUME IInv, InitSensor
    PROVE  /\ UNCHANGED <<available, device_count, sensor_count, i, pc>>
           /\ slot' = slot /\ pc = "sensor" /\ slot \in 1 .. available
           /\ k' = k + 1 /\ k + 1 \in 1 .. NbKinds
           /\ \A n \in 1 .. available : n # slot => Filled(n)' = Filled(n)
           /\ Filled(slot) = device_sensors /\ Filled(slot)' = device_sensors'
           /\ device_sensors \in 0 .. NbKinds - 1
           /\ \A n \in 1 .. available :
                 /\ Dev(n)' = Dev(n) /\ devices'[n].count = devices[n].count
                 /\ \A m \in 1 .. Filled(n) :
                       /\ Fun(n, m)' = Fun(n, m) /\ Cols(n, m)' = Cols(n, m)
                       /\ Id(n, m)' = Id(n, m)
<1>1. /\ UNCHANGED <<available, device_count, sensor_count, i, pc>>
      /\ slot' = slot /\ pc = "sensor" /\ slot \in 1 .. available
      /\ k' = k + 1 /\ k + 1 \in 1 .. NbKinds
  <2>1. /\ UNCHANGED <<available, device_count, sensor_count, i, pc>>
        /\ pc = "sensor" /\ k' = k + 1 /\ k < NbKinds /\ i < available
    BY DEF InitSensor, NbKinds, IInv, ControlInv
  <2> QED
    BY <2>1, ControlType DEF slot
<1>2. device_sensors \in 0 .. NbKinds - 1
  BY <1>1, ControlType
<1>3. Kept
  BY SensorEffect
<1>4. \A n \in 1 .. available : n # slot => Filled(n)' = Filled(n)
  BY <1>1, <1>3 DEF Filled, Kept
<1>5. Filled(slot) = device_sensors /\ Filled(slot)' = device_sensors'
  BY <1>1, ControlType DEF Filled, slot
<1>6. \A n \in 1 .. available : \A m \in 1 .. Filled(n) :
          /\ Fun(n, m)' = Fun(n, m) /\ Cols(n, m)' = Cols(n, m)
          /\ Id(n, m)' = Id(n, m)
  BY <1>3 DEF Kept, Fun, Cols, Id
<1> QED
  BY <1>1, <1>2, <1>3, <1>4, <1>5, <1>6 DEF Kept

LEMMA FoundSensor ==
    ASSUME IInv, InitSensor, NEW answer \in Answers, answer # <<>>,
           Found(answer), NEW m, m = device_sensors + 1
    PROVE  /\ Fun(slot, m)' = kind /\ Id(slot, m)' = allocs + 1
           /\ Len(answer) \in Nat \ {0}
           /\ Len(Cols(slot, m)') = Len(answer)
           /\ \A x \in 1 .. Len(answer) :
                  Cols(slot, m)'[x] =
                      [dev |-> Dev(slot), kind |-> kind, item |-> answer[x]]
           /\ \A x, y \in 1 .. Len(answer) : answer[x] = answer[y] => x = y
<1>1. slot' = slot /\ k \in 0 .. NbKinds - 1 /\ pc = "sensor"
  <2>1. slot' = slot /\ k + 1 \in 1 .. NbKinds /\ pc = "sensor"
    BY NewSensor
  <2> QED
    BY <2>1, ControlType
<1>2. /\ Len(answer) \in Nat \ {0}
      /\ \A x, y \in 1 .. Len(answer) : answer[x] = answer[y] => x = y
  BY <1>1, AnswersType
<1>3. devices'[slot].sensors[device_sensors + 1] =
         [fun |-> kind, data |-> DataBlock(answer)]
  BY DEF Found
<1>4. /\ DataBlock(answer).id = allocs + 1
      /\ Len(DataBlock(answer).columns) = Len(answer)
      /\ \A x \in 1 .. Len(answer) :
            DataBlock(answer).columns[x] =
               [dev |-> Dev(slot), kind |-> kind, item |-> answer[x]]
  BY <1>1, SensorType
<1>5. /\ Fun(slot, m)' = kind /\ Id(slot, m)' = DataBlock(answer).id
      /\ Cols(slot, m)' = DataBlock(answer).columns
  BY <1>1, <1>3 DEF Fun, Id, Cols
<1> QED
  BY <1>2, <1>4, <1>5

-----------------------------------------------------------------------------
(* The table *)

LEMMA InitStored ==
    ASSUME IInv, NvmlInit
    PROVE  /\ device_count = 0 /\ device_count' = 0 /\ slot' = 1 /\ slot = 1
           /\ Total' = Total
           /\ pc' \notin {"sensor", "label", "get", "use", "clean"}
           /\ \A n : n \in 1 .. available' => Filled(n)' = 0
           /\ Filled(1) = 0 /\ Filled(1)' = 0
<1>1. device_count = 0 /\ device_count' = 0 /\ pc = "init" /\ pc' # "sensor"
      /\ pc' \in {"device", "ended"} /\ UNCHANGED sensor_count
  BY ControlType DEF NvmlInit, IInv, ControlInv
<1>2. \A n \in Nat : n > 0 => ~(n <= device_count')
  BY <1>1
<1> QED
  BY <1>1, <1>2 DEF slot, Total, Filled

LEMMA TableStep == IInv /\ [Next]_vars => TableInv'
<1> SUFFICES ASSUME IInv, [Next]_vars PROVE TableInv'
  OBVIOUS
<1>t. TableInv
  BY DEF IInv
<1>1. CASE NvmlInit
  BY <1>1, InitStored DEF TableInv
<1>2. CASE OpenDevice
  <2>1. /\ SameSensors /\ UNCHANGED <<available, device_count>> /\ slot' = slot
        /\ \A n \in 1 .. device_count : devices'[n] = devices[n]
        /\ \/ pc' = "device" /\ i' = i + 1
           \/ /\ pc' = "sensor" /\ i' = i /\ Dev(slot)' = i
              /\ device_sensors' = 0 /\ device_total' = 0
    BY <1>2, OpenEffect
  <2>2. \A n \in 1 .. device_count :
            /\ Dev(n)' = Dev(n) /\ Dev(n) \in Nat /\ Dev(n) < i'
            /\ devices'[n].count = devices[n].count
    <3> TAKE n \in 1 .. device_count
    <3>1. devices'[n] = devices[n] /\ Dev(n) < i
      BY <1>t, <2>1 DEF TableInv
    <3>2. n \in 1 .. available
      BY ControlType
    <3>3. Dev(n) \in Nat
      BY <3>2, DeviceType
    <3>4. Dev(n) < i'
      BY <2>1, <3>1, <3>3, ControlType
    <3> QED
      BY <3>1, <3>3, <3>4 DEF Dev
  <2>3. \A n \in 1 .. available : \A m, m2 \in 1 .. Filled(n)' :
            Fun(n, m)' = Fun(n, m2)' => m = m2
    <3>1. \A n \in 1 .. available : \A m \in 1 .. Filled(n) : m \in 1 .. NbKinds
      BY DeviceType, ControlType
    <3> QED
      BY <1>t, <2>1, <3>1 DEF SameSensors, TableInv
  <2> QED
    BY <1>t, <2>1, <2>2, <2>3 DEF TableInv
<1>3. CASE InitSensor
  <2>1. /\ UNCHANGED <<available, device_count, i, pc>> /\ slot' = slot
        /\ pc = "sensor" /\ slot \in 1 .. available
        /\ k' = k + 1 /\ k + 1 \in 1 .. NbKinds
        /\ \A n \in 1 .. available : n # slot => Filled(n)' = Filled(n)
        /\ Filled(slot) = device_sensors /\ Filled(slot)' = device_sensors'
        /\ device_sensors \in 0 .. NbKinds - 1
    BY <1>3, NewSensor
  <2>2. \A n \in 1 .. available :
           /\ Dev(n)' = Dev(n) /\ devices'[n].count = devices[n].count
           /\ \A m \in 1 .. Filled(n) : Fun(n, m)' = Fun(n, m)
    BY <1>3, NewSensor
  <2>3. \A n \in 1 .. device_count : n \in 1 .. available
    BY <2>1, ControlType DEF slot
  <2> DEFINE NewTable ==
        /\ \A m \in 1 .. device_sensors' :
              \E x \in 1 .. k' : Fun(slot, m)' = Kinds[x]
        /\ (device_sensors' = 0) <=> (device_total' = 0)
        /\ \A m, m2 \in 1 .. device_sensors' :
              Fun(slot, m)' = Fun(slot, m2)' => m = m2
  <2>4. NewTable
    <3>1. /\ \A m \in 1 .. device_sensors :
                /\ Fun(slot, m)' = Fun(slot, m)
                /\ \E x \in 1 .. k : Fun(slot, m) = Kinds[x]
          /\ (device_sensors = 0) <=> (device_total = 0)
          /\ \A m, m2 \in 1 .. device_sensors :
                Fun(slot, m) = Fun(slot, m2) => m = m2
      BY <1>t, <2>1, <2>2 DEF TableInv
    <3>2. CASE UNCHANGED <<device_sensors, device_total>>
      <4>1. \A x \in 1 .. k : x \in 1 .. k'
        BY <2>1, ControlType
      <4> QED
        BY <2>2, <3>1, <3>2, <4>1
    <3>3. ASSUME NEW answer \in Answers, answer # <<>>, Found(answer)
          PROVE  NewTable
      <4>1. PICK new \in Nat : new = device_sensors + 1
        BY <2>1
      <4>2. Fun(slot, new)' = kind /\ Len(answer) \in Nat \ {0}
        BY <1>3, <3>3, <4>1, FoundSensor
      <4>3. device_sensors' = new /\ device_total' = device_total + Len(answer)
        BY <3>3, <4>1 DEF Found
      <4>4. /\ kind = Kinds[k']
            /\ \A x \in 1 .. k : x \in 1 .. NbKinds /\ x # k' /\ Kinds[x] # kind
        <5>1. k \in Nat /\ k + 1 \in 1 .. Len(Kinds) /\ k' = k + 1
          BY <2>1, ControlType DEF NbKinds
        <5>2. \A x \in 1 .. k : x \in 1 .. Len(Kinds) /\ x # k + 1
          BY <5>1, KindsAssumption
        <5>3. \A x, y \in 1 .. Len(Kinds) : Kinds[x] = Kinds[y] => x = y
          BY KindsAssumption
        <5> QED
          BY <5>1, <5>2, <5>3 DEF kind, NbKinds
      <4>5. \A m \in 1 .. new : m = new \/ m \in 1 .. device_sensors
        BY <2>1, <4>1
      <4>6. \A m \in 1 .. new : \E x \in 1 .. k' : Fun(slot, m)' = Kinds[x]
        <5>1. k' \in 1 .. k' /\ \A x \in 1 .. k : x \in 1 .. k'
          BY <2>1, ControlType
        <5> QED
          BY <3>1, <4>2, <4>4, <4>5, <5>1
      <4>7. \A m \in 1 .. device_sensors : Fun(slot, m)' # kind
        BY <3>1, <4>4
      <4>8. \A m, m2 \in 1 .. new : Fun(slot, m)' = Fun(slot, m2)' => m = m2
        BY <3>1, <4>2, <4>5, <4>7
      <4>9. device_sensors' # 0 /\ device_total' # 0
        <5>1. PICK l \in Nat \ {0} : device_total' = device_total + l
          BY <4>2, <4>3
        <5>2. device_total \in Nat /\ device_sensors \in Nat
          BY ControlType
        <5> QED
          BY <4>1, <4>3, <5>1, <5>2
      <4> QED
        BY <4>3, <4>6, <4>8, <4>9
    <3> QED
      BY <1>3, <3>2, <3>3, SensorEffect
  <2>5. \A n \in 1 .. available : \A m, m2 \in 1 .. Filled(n)' :
            Fun(n, m)' = Fun(n, m2)' => m = m2
    BY <1>t, <2>1, <2>2, <2>4 DEF TableInv
  <2>6. Dev(slot)' = i
    BY <1>t, <2>1, <2>2 DEF TableInv
  <2>7. /\ \A n \in 1 .. device_count :
              Dev(n)' < i /\ devices'[n].count <= NbKinds
        /\ \A n, n2 \in 1 .. device_count : n < n2 => Dev(n)' < Dev(n2)'
    BY <1>t, <2>2, <2>3 DEF TableInv
  <2> QED
    BY <2>1, <2>4, <2>5, <2>6, <2>7 DEF TableInv
<1>4. CASE EndDevice
  <2>1. /\ SameSensors /\ UNCHANGED available /\ slot \in 1 .. available
        /\ i' = i + 1 /\ pc' = "device"
        /\ \A n \in 1 .. available : Dev(n)' = Dev(n)
        /\ \A n \in 1 .. device_count : devices'[n] = devices[n]
        /\ devices'[slot].count = device_sensors
        /\ device_count' = device_count \/ device_count' = device_count + 1
    BY <1>4, EndEffect
  <2>2. /\ Dev(slot) = i /\ device_sensors <= NbKinds
        /\ \A n \in 1 .. device_count : n \in 1 .. available /\ Dev(n) \in Nat
        /\ i \in Nat /\ slot = device_count + 1 /\ device_count \in Nat
    <3>1. pc = "sensor"
      BY <1>4 DEF EndDevice
    <3> QED
      <4>1. Dev(slot) = i
        BY <1>t, <3>1 DEF TableInv
      <4>2. \A n \in 1 .. device_count : n \in 1 .. available
        BY ControlType
      <4>3. \A n \in 1 .. device_count : Dev(n) \in Nat
        BY <4>2, DeviceType
      <4> QED
        BY <4>1, <4>2, <4>3, ControlType DEF slot
  <2>3. \A n \in 1 .. device_count' :
            /\ n \in 1 .. device_count \/ n = slot
            /\ Dev(n)' < i' /\ devices'[n].count <= NbKinds
    BY <1>t, <2>1, <2>2 DEF TableInv
  <2>4. \A n, n2 \in 1 .. device_count' : n < n2 => Dev(n)' < Dev(n2)'
    BY <1>t, <2>1, <2>2, <2>3 DEF TableInv
  <2>5. \A n \in 1 .. available : \A m, m2 \in 1 .. Filled(n)' :
            Fun(n, m)' = Fun(n, m2)' => m = m2
    <3>1. \A n \in 1 .. available : \A m \in 1 .. Filled(n) : m \in 1 .. NbKinds
      BY DeviceType, ControlType
    <3> QED
      BY <1>t, <2>1, <3>1 DEF SameSensors, TableInv
  <2> QED
    BY <2>1, <2>3, <2>4, <2>5 DEF TableInv
<1> QED
  BY <1>t, <1>1, <1>2, <1>3, <1>4, Storing, Frame

LEMMA ColumnsStep == IInv /\ [Next]_vars => ColumnsInv'
<1> SUFFICES ASSUME IInv, [Next]_vars PROVE ColumnsInv'
  OBVIOUS
<1>c. ColumnsInv
  BY DEF IInv
<1>1. CASE NvmlInit
  BY <1>1, InitStored DEF ColumnsInv
<1>s. ASSUME SameSensors, UNCHANGED available,
             \A n \in 1 .. available : Filled(n) > 0 => Dev(n)' = Dev(n)
      PROVE  ColumnsInv'
  <2>1. \A n \in 1 .. available :
            Filled(n) \in Nat /\ \A m \in 1 .. Filled(n) : m \in 1 .. NbKinds
    BY DeviceType, ControlType
  <2>2. \A n \in 1 .. available : \A m \in 1 .. Filled(n)' :
            /\ m \in 1 .. Filled(n) /\ Dev(n)' = Dev(n)
            /\ Fun(n, m)' = Fun(n, m) /\ Cols(n, m)' = Cols(n, m)
    BY <1>s, <2>1 DEF SameSensors
  <2> QED
    BY <1>c, <1>s, <2>2 DEF ColumnsInv
<1>2. CASE OpenDevice
  <2>1. /\ SameSensors /\ UNCHANGED available
        /\ \A n \in 1 .. device_count : devices'[n] = devices[n]
    BY <1>2, OpenEffect
  <2>2. \A n \in 1 .. available : Filled(n) > 0 => n \in 1 .. device_count
    BY <1>2, ControlType DEF Filled, OpenDevice
  <2> QED
    BY <1>s, <2>1, <2>2 DEF Dev
<1>3. CASE InitSensor
  <2>1. /\ UNCHANGED available /\ slot' = slot
        /\ \A n \in 1 .. available : n # slot => Filled(n)' = Filled(n)
        /\ Filled(slot) = device_sensors /\ Filled(slot)' = device_sensors'
        /\ device_sensors \in 0 .. NbKinds - 1
        /\ \A n \in 1 .. available :
              /\ Dev(n)' = Dev(n)
              /\ \A m \in 1 .. Filled(n) :
                    Fun(n, m)' = Fun(n, m) /\ Cols(n, m)' = Cols(n, m)
    BY <1>3, NewSensor
  <2> DEFINE Good(n, m) ==
        /\ Len(Cols(n, m)') > 0
        /\ \A x \in 1 .. Len(Cols(n, m)') :
             Cols(n, m)'[x].dev = Dev(n)' /\ Cols(n, m)'[x].kind = Fun(n, m)'
        /\ \A x, y \in 1 .. Len(Cols(n, m)') :
             Cols(n, m)'[x] = Cols(n, m)'[y] => x = y
  <2>2. ASSUME NEW n \in 1 .. available, NEW m \in 1 .. Filled(n)
        PROVE  Good(n, m)
    BY <1>c, <2>1 DEF ColumnsInv
  <2>3. ASSUME NEW answer \in Answers, answer # <<>>, Found(answer),
               NEW m, m = device_sensors + 1
        PROVE  Good(slot, m)
    <3>1. /\ Fun(slot, m)' = kind /\ Len(answer) \in Nat \ {0}
          /\ Len(Cols(slot, m)') = Len(answer)
          /\ \A x \in 1 .. Len(answer) :
                 Cols(slot, m)'[x] =
                     [dev |-> Dev(slot), kind |-> kind, item |-> answer[x]]
          /\ \A x, y \in 1 .. Len(answer) : answer[x] = answer[y] => x = y
      BY <1>3, <2>3, FoundSensor
    <3>2. Dev(slot)' = Dev(slot)
      BY <1>3, <2>1, NewSensor
    <3>3. ASSUME NEW x \in 1 .. Len(answer)
          PROVE  /\ Cols(slot, m)'[x].dev = Dev(slot)
                 /\ Cols(slot, m)'[x].kind = kind
                 /\ Cols(slot, m)'[x].item = answer[x]
      <4>1. Cols(slot, m)'[x] =
                [dev |-> Dev(slot), kind |-> kind, item |-> answer[x]]
        BY <3>1
      <4> QED
        BY <4>1
    <3>4. \A x, y \in 1 .. Len(answer) :
              Cols(slot, m)'[x] = Cols(slot, m)'[y] => answer[x] = answer[y]
      BY <3>3, Zenon
    <3> QED
      BY <2>1, <3>1, <3>2, <3>3, <3>4
  <2>4. ASSUME NEW n \in 1 .. available, NEW m \in 1 .. Filled(n)'
        PROVE  Good(n, m)
    <3>1. CASE m \in 1 .. Filled(n)
      BY <2>2, <3>1
    <3>2. CASE m \notin 1 .. Filled(n)
      <4>1. /\ n = slot /\ m \in 1 .. device_sensors'
            /\ m \notin 1 .. device_sensors
        BY <2>1, <3>2
      <4>2. PICK answer \in Answers : answer # <<>> /\ Found(answer)
        BY <1>3, <4>1, SensorEffect
      <4>3. m = device_sensors + 1
        BY <2>1, <4>1, <4>2 DEF Found
      <4> HIDE DEF Good
      <4>4. Good(slot, m)
        BY <2>3, <4>2, <4>3
      <4> QED
        BY <4>1, <4>4
    <3> QED
      BY <3>1, <3>2
  <2> QED
    BY <2>1, <2>4 DEF ColumnsInv
<1>4. CASE EndDevice
  BY <1>4, <1>s, EndEffect
<1> QED
  BY <1>c, <1>1, <1>2, <1>3, <1>4, Storing, Frame

-----------------------------------------------------------------------------
(* The columns before each sensor *)

\* Filled slots come first.
LEMMA FilledSlots ==
    ASSUME IInv
    PROVE  /\ Total \in Nat
           /\ \A n \in 1 .. available : n > slot => Filled(n) = 0
  BY ControlType DEF Total, Filled, slot

LEMMA SameLayout ==
    ASSUME IInv, SameSensors, UNCHANGED <<available, device_count>>,
           Total' = Total, slot \in 1 .. available, NEW off, Layout(off)
    PROVE  Layout(off)'
<1>1. slot' = slot /\ \A n \in 1 .. device_count : n \in 1 .. available
  BY ControlType DEF slot
<1>2. \A n \in 1 .. available : Filled(n)' = Filled(n)
  BY DEF SameSensors
<1>3. \A n \in 1 .. available : \A m \in 1 .. Filled(n) :
          Cols(n, m)' = Cols(n, m)
  <2> TAKE n \in 1 .. available
  <2>1. Filled(n) \in 0 .. NbKinds
    BY DeviceType
  <2>2. \A m \in 1 .. Filled(n) : m \in 1 .. NbKinds
    BY <2>1, ControlType
  <2> QED
    BY <2>2 DEF SameSensors
<1>4. Filled(slot)' = Filled(slot)
  BY <1>1, <1>2
<1> QED
  BY <1>1, <1>2, <1>3, <1>4, LayoutKept

\* The columns of the device that ends come before those of the next slot.
LEMMA EndLayout ==
    ASSUME IInv, EndDevice, device_count' = device_count + 1,
           NEW off \in Offsets, Layout(off)
    PROVE  \E new \in Offsets : Layout(new)'
<1>1. /\ SameSensors /\ UNCHANGED available /\ slot \in 1 .. available
      /\ Total' = Total /\ pc' = "device"
  BY EndEffect
<1>2. /\ slot = device_count + 1 /\ slot' = slot + 1 /\ device_count \in Nat
      /\ available \in Nat /\ available <= MaxDevices /\ MaxDevices \in Nat
      /\ NbKinds \in Nat
  BY ControlType DEF slot
<1>3. PICK e \in Nat : e = slot /\ e + 1 \in 1 .. MaxDevices + 1
  BY <1>1, <1>2
<1>t. PICK t \in Nat : t = Total
  BY FilledSlots
<1>4. PICK new \in Offsets :
        /\ \A n \in 1 .. MaxDevices + 1 : n # e + 1 => new[n] = off[n]
        /\ new[e + 1][1] = t
  <2> DEFINE new == [off EXCEPT ![e + 1] = [@ EXCEPT ![1] = t]]
  <2>1. off[e + 1] \in [1 .. NbKinds + 1 -> Nat]
    BY <1>3 DEF Offsets
  <2>2. [off[e + 1] EXCEPT ![1] = t] \in [1 .. NbKinds + 1 -> Nat]
    BY <2>1
  <2>3. new \in Offsets
    BY <2>2 DEF Offsets
  <2>4. new[e + 1] = [off[e + 1] EXCEPT ![1] = t]
    BY <1>3 DEF Offsets
  <2>5. new[e + 1][1] = t
    BY <1>2, <2>1, <2>4
  <2>6. \A n \in 1 .. MaxDevices + 1 : n # e + 1 => new[n] = off[n]
    BY DEF Offsets
  <2> HIDE DEF new
  <2> QED
    BY <2>3, <2>5, <2>6
<1>5. \A n \in 1 .. available : /\ Filled(n)' = Filled(n)
                               /\ n \in 1 .. MaxDevices + 1
  BY <1>1, <1>2 DEF SameSensors
<1>6. ASSUME NEW n \in 1 .. available, NEW m \in 1 .. Filled(n)'
      PROVE  /\ m \in 1 .. Filled(n) /\ Cols(n, m)' = Cols(n, m)
             /\ new[n] = off[n]
  <2>1. m \in 1 .. Filled(n)
    BY <1>5
  <2>2. n # e + 1
    BY <1>2, <1>3, <2>1, FilledSlots
  <2>3. m \in 1 .. NbKinds
    <3>1. Filled(n) \in 0 .. NbKinds
      BY DeviceType
    <3> QED
      BY <2>1, <3>1, ControlType
  <2> QED
    BY <1>1, <1>4, <1>5, <2>1, <2>2, <2>3 DEF SameSensors
<1>7. new[1][1] = 0
  <2>1. 1 # e + 1 /\ 1 \in 1 .. MaxDevices + 1
    BY <1>1, <1>2, <1>3
  <2> QED
    BY <1>4, <2>1 DEF Layout
<1>8. ASSUME NEW n \in 1 .. device_count'
      PROVE  new[n + 1][1] = new[n][Filled(n)' + 1]
  <2>1. /\ n \in 1 .. available /\ n # e + 1
        /\ n = e \/ (n \in 1 .. device_count /\ n + 1 # e + 1)
        /\ n + 1 \in 1 .. MaxDevices + 1
    BY <1>1, <1>2, <1>3
  <2>2. new[n] = off[n] /\ Filled(n)' = Filled(n)
    BY <1>4, <1>5, <2>1
  <2>3. CASE n = e
    <3>1. off[e][Filled(e) + 1] = t
      BY <1>3, <1>t DEF Layout
    <3> QED
      BY <1>4, <2>2, <2>3, <3>1
  <2>4. CASE n \in 1 .. device_count /\ n + 1 # e + 1
    BY <1>4, <2>1, <2>2, <2>4 DEF Layout
  <2> QED
    BY <2>1, <2>3, <2>4
<1>9. new[slot'][Filled(slot)' + 1] = Total'
  <2>1. Filled(slot)' = 0
    BY <1>1, <1>2 DEF Filled, slot
  <2> QED
    BY <1>1, <1>2, <1>3, <1>4, <1>t, <2>1
<1>10. \A n \in 1 .. available : \A m \in 1 .. Filled(n)' :
          /\ new[n][m + 1] = new[n][m] + Len(Cols(n, m)')
          /\ new[n][m + 1] <= Total'
  BY <1>1, <1>6 DEF Layout
<1>11. \A n, n2 \in 1 .. available :
          \A m \in 1 .. Filled(n)', m2 \in 1 .. Filled(n2)' :
              n < n2 \/ (n = n2 /\ m < m2) => new[n][m + 1] <= new[n2][m2]
  BY <1>6 DEF Layout
<1>12. \A c \in 1 .. Total' :
          \E n \in 1 .. available : \E m \in 1 .. Filled(n)' :
              c \in new[n][m] + 1 .. new[n][m + 1]
  <2> TAKE c \in 1 .. Total'
  <2>1. PICK n \in 1 .. available : \E m \in 1 .. Filled(n) :
            c \in off[n][m] + 1 .. off[n][m + 1]
    BY <1>1 DEF Layout
  <2>2. PICK m \in 1 .. Filled(n)' : c \in off[n][m] + 1 .. off[n][m + 1]
    BY <1>5, <2>1
  <2> QED
    BY <1>6, <2>2
<1>13. Layout(new)'
  BY <1>1, <1>7, <1>8, <1>9, <1>10, <1>11, <1>12 DEF Layout
<1> QED
  BY <1>4, <1>13

\* The columns of a new sensor come behind all the others.
LEMMA NewLayout ==
    ASSUME IInv, InitSensor, NEW answer \in Answers, answer # <<>>,
           Found(answer), NEW off \in Offsets, Layout(off)
    PROVE  \E new \in Offsets : Layout(new)'
<1>1. /\ UNCHANGED <<available, device_count, sensor_count, pc>>
      /\ slot' = slot /\ pc = "sensor" /\ slot \in 1 .. available
      /\ \A n \in 1 .. available : n # slot => Filled(n)' = Filled(n)
      /\ Filled(slot) = device_sensors /\ Filled(slot)' = device_sensors'
      /\ device_sensors \in 0 .. NbKinds - 1
  BY NewSensor
<1>2. /\ slot = device_count + 1 /\ device_count \in Nat
      /\ available \in Nat /\ available <= MaxDevices /\ MaxDevices \in Nat
      /\ NbKinds \in Nat /\ device_total \in Nat /\ sensor_count \in Nat
  BY ControlType DEF slot
<1>e. PICK e \in 1 .. available : e = slot
  BY <1>1
<1>j. PICK j \in 1 .. NbKinds : j = device_sensors + 1
  BY <1>1, <1>2
<1>t. PICK t \in Nat : t = Total
  BY FilledSlots
<1>l. PICK l \in Nat \ {0} : l = Len(answer) /\ Len(Cols(e, j)') = l
  <2>1. Len(answer) \in Nat \ {0} /\ Len(Cols(slot, j)') = Len(answer)
    BY <1>j, FoundSensor
  <2> QED
    BY <1>1, <1>e, <2>1
<1>3. Total' = t + l
  BY <1>1, <1>2, <1>t, <1>l DEF Total, Found
<1>4. Filled(e) = j - 1 /\ Filled(e)' = j
  BY <1>1, <1>e, <1>j DEF Found
<1>5. PICK new \in Offsets :
        /\ \A n \in 1 .. MaxDevices + 1 : \A m \in 1 .. NbKinds + 1 :
              n # e \/ m # j + 1 => new[n][m] = off[n][m]
        /\ new[e][j + 1] = t + l
  <2> DEFINE new == [off EXCEPT ![e] = [@ EXCEPT ![j + 1] = t + l]]
  <2>0. e \in 1 .. MaxDevices + 1 /\ j + 1 \in 1 .. NbKinds + 1 /\ t + l \in Nat
    BY <1>2
  <2>1. off[e] \in [1 .. NbKinds + 1 -> Nat]
    BY <2>0 DEF Offsets
  <2>2. [off[e] EXCEPT ![j + 1] = t + l] \in [1 .. NbKinds + 1 -> Nat]
    BY <2>0, <2>1
  <2>3. new \in Offsets
    BY <2>2 DEF Offsets
  <2>4. new[e] = [off[e] EXCEPT ![j + 1] = t + l]
    BY <2>0 DEF Offsets
  <2>5. new[e][j + 1] = t + l
    BY <2>0, <2>1, <2>4
  <2>6. \A n \in 1 .. MaxDevices + 1 : n # e => new[n] = off[n]
    BY DEF Offsets
  <2>7. \A m \in 1 .. NbKinds + 1 : m # j + 1 => new[e][m] = off[e][m]
    BY <2>0, <2>1, <2>4
  <2> HIDE DEF new
  <2> QED
    BY <2>3, <2>5, <2>6, <2>7
<1>6. \A n \in 1 .. available : n \in 1 .. MaxDevices + 1
  BY <1>2
\* A sensor is one of the old ones, or it is the new one.
<1>7. ASSUME NEW n \in 1 .. available, NEW m \in 1 .. Filled(n)
      PROVE  /\ m \in Nat /\ n <= e /\ (n = e => m < j)
             /\ off[n][m] \in Nat /\ off[n][m + 1] \in Nat
             /\ new[n][m] = off[n][m] /\ new[n][m + 1] = off[n][m + 1]
             /\ Cols(n, m)' = Cols(n, m)
  <2>1. /\ m \in Nat /\ m \in 1 .. NbKinds + 1 /\ m + 1 \in 1 .. NbKinds + 1
        /\ Filled(n) \in Nat
    BY <1>2, DeviceType
  <2>2. n <= e /\ (n = e => m < j)
    BY <1>2, <1>4, <1>e, <2>1, FilledSlots
  <2>3. n # e \/ (m # j + 1 /\ m + 1 # j + 1)
    BY <2>1, <2>2
  <2> QED
    BY <1>5, <1>6, <2>1, <2>2, <2>3, OffType, NewSensor
<1>8. ASSUME NEW n \in 1 .. available, NEW m \in 1 .. Filled(n)'
      PROVE  m \in 1 .. Filled(n) \/ (n = e /\ m = j)
  BY <1>1, <1>4, <1>e
<1>9. off[e][j] = t /\ new[e][j] = t
  <2>1. j \in 1 .. NbKinds + 1 /\ j # j + 1 /\ (j - 1) + 1 = j
    BY <1>2
  <2>2. off[e][j] = t
    BY <1>4, <1>e, <1>t, <2>1 DEF Layout
  <2> QED
    BY <1>5, <1>6, <2>1, <2>2
<1>10. new[1][1] = 0
  <2>1. 1 # j + 1 /\ 1 \in 1 .. MaxDevices + 1 /\ 1 \in 1 .. NbKinds + 1
    BY <1>2
  <2> QED
    BY <1>5, <2>1 DEF Layout
<1>11. ASSUME NEW n \in 1 .. device_count
       PROVE  new[n + 1][1] = new[n][Filled(n)' + 1]
  <2>1. /\ n \in 1 .. available /\ n # e /\ n + 1 \in 1 .. MaxDevices + 1
        /\ 1 # j + 1 /\ 1 \in 1 .. NbKinds + 1
    BY <1>1, <1>2, <1>e
  <2>2. Filled(n)' = Filled(n) /\ Filled(n) + 1 \in 1 .. NbKinds + 1
    BY <1>1, <1>2, <1>e, <2>1, DeviceType
  <2>3. new[n + 1][1] = off[n + 1][1]
    BY <1>5, <2>1
  <2>4. new[n][Filled(n) + 1] = off[n][Filled(n) + 1]
    BY <1>5, <1>6, <2>1, <2>2
  <2> QED
    BY <2>2, <2>3, <2>4 DEF Layout
<1>12. new[slot'][Filled(slot)' + 1] = Total'
  BY <1>1, <1>3, <1>4, <1>5, <1>e
<1>13. ASSUME NEW n \in 1 .. available, NEW m \in 1 .. Filled(n)'
       PROVE  /\ new[n][m + 1] = new[n][m] + Len(Cols(n, m)')
              /\ new[n][m + 1] <= Total'
  <2>1. CASE m \in 1 .. Filled(n)
    <3>1. off[n][m + 1] = off[n][m] + Len(Cols(n, m)) /\ off[n][m + 1] <= t
      BY <1>t, <2>1 DEF Layout
    <3> QED
      BY <1>3, <1>7, <2>1, <3>1
  <2>2. CASE n = e /\ m = j
    BY <1>3, <1>5, <1>9, <1>l, <2>2
  <2> QED
    BY <1>8, <2>1, <2>2
<1>14. ASSUME NEW n \in 1 .. available, NEW n2 \in 1 .. available,
              NEW m \in 1 .. Filled(n)', NEW m2 \in 1 .. Filled(n2)',
              n < n2 \/ (n = n2 /\ m < m2)
       PROVE  new[n][m + 1] <= new[n2][m2]
  <2>1. CASE m \in 1 .. Filled(n) /\ m2 \in 1 .. Filled(n2)
    <3>1. off[n][m + 1] <= off[n2][m2]
      BY <1>14, <2>1 DEF Layout
    <3> QED
      BY <1>7, <2>1, <3>1
  <2>2. CASE m \in 1 .. Filled(n) /\ n2 = e /\ m2 = j
    <3>1. off[n][m + 1] <= t
      BY <1>t, <2>2 DEF Layout
    <3> QED
      BY <1>7, <1>9, <2>2, <3>1
  <2>3. CASE n = e /\ m = j
    <3>1. ~(m2 \in 1 .. Filled(n2))
      BY <1>7, <1>14, <2>3
    <3>2. n2 = e /\ m2 = j
      BY <1>8, <3>1
    <3> QED
      BY <1>14, <2>3, <3>2
  <2> QED
    BY <1>8, <2>1, <2>2, <2>3
<1>15. ASSUME NEW c \in 1 .. Total'
       PROVE  \E n \in 1 .. available : \E m \in 1 .. Filled(n)' :
                  c \in new[n][m] + 1 .. new[n][m + 1]
  <2>1. CASE c <= t
    <3>1. c \in 1 .. Total
      BY <1>3, <1>t, <2>1
    <3>2. PICK n \in 1 .. available : \E m \in 1 .. Filled(n) :
              c \in off[n][m] + 1 .. off[n][m + 1]
      BY <3>1 DEF Layout
    <3>3. PICK m \in 1 .. Filled(n) : c \in off[n][m] + 1 .. off[n][m + 1]
      BY <3>2
    <3>4. m \in 1 .. Filled(n)'
      <4>1. Filled(n)' = Filled(n) \/ (n = e /\ Filled(e)' = Filled(e) + 1)
        BY <1>1, <1>4, <1>e
      <4>2. Filled(n) \in Nat
        BY DeviceType
      <4> QED
        BY <4>1, <4>2
    <3>5. c \in new[n][m] + 1 .. new[n][m + 1]
      BY <1>7, <3>3
    <3> QED
      BY <3>4, <3>5
  <2>2. CASE c > t
    <3>1. c \in t + 1 .. t + l
      BY <1>3, <2>2
    <3>2. c \in new[e][j] + 1 .. new[e][j + 1] /\ j \in 1 .. Filled(e)'
      BY <1>4, <1>5, <1>9, <3>1
    <3> QED
      BY <3>2
  <2> QED
    BY <1>3, <2>1, <2>2
<1>16. Layout(new)'
  BY <1>1, <1>10, <1>11, <1>12, <1>13, <1>14, <1>15 DEF Layout
<1> QED
  BY <1>5, <1>16

LEMMA LayoutStep ==
    ASSUME IInv, NvmlInit \/ OpenDevice \/ InitSensor \/ EndDevice,
           NEW off \in Offsets, Layout(off)
    PROVE  \E new \in Offsets : Layout(new)'
<1>1. CASE NvmlInit
  <2>1. /\ device_count = 0 /\ device_count' = 0 /\ slot' = 1 /\ slot = 1
        /\ Total' = Total /\ \A n : n \in 1 .. available' => Filled(n)' = 0
        /\ Filled(1) = 0 /\ Filled(1)' = 0
    BY <1>1, InitStored
  <2>2. off[1][1] = 0 /\ Total = 0
    BY <2>1 DEF Layout
  <2>3. Layout(off)'
    BY <2>1, <2>2 DEF Layout
  <2> QED
    BY <2>3
<1>2. CASE OpenDevice
  <2>1. slot \in 1 .. available
    BY <1>2, ControlType DEF OpenDevice, slot
  <2>2. Layout(off)'
    BY <1>2, <2>1, OpenEffect, SameLayout
  <2> QED
    BY <2>2
<1>3. CASE InitSensor
  <2>1. CASE UNCHANGED <<device_sensors, device_total, allocs, live>>
    <3>1. /\ UNCHANGED <<available, device_count, sensor_count, pc>>
          /\ slot \in 1 .. available
          /\ \A n \in 1 .. available :
                /\ Filled(n)' = Filled(n)
                /\ \A m \in 1 .. Filled(n) : Cols(n, m)' = Cols(n, m)
      BY <1>3, <2>1, NewSensor
    <3>2. /\ Total' = Total /\ slot' = slot
          /\ \A n \in 1 .. device_count : n \in 1 .. available
      BY <2>1, <3>1, ControlType DEF Total, slot
    <3>3. Filled(slot)' = Filled(slot)
      BY <3>1, <3>2
    <3>4. Layout(off)'
      BY <3>1, <3>2, <3>3, LayoutKept
    <3> QED
      BY <3>4
  <2>2. ASSUME NEW answer \in Answers, answer # <<>>, Found(answer)
        PROVE  \E new \in Offsets : Layout(new)'
    BY <1>3, <2>2, NewLayout
  <2> QED
    BY <1>3, <2>1, <2>2, SensorEffect
<1>4. CASE EndDevice
  <2>1. CASE device_count' = device_count
    <3>1. Layout(off)'
      BY <1>4, <2>1, EndEffect, SameLayout
    <3> QED
      BY <3>1
  <2>2. CASE device_count' = device_count + 1
    BY <1>4, <2>2, EndLayout
  <2> QED
    BY <1>4, <2>1, <2>2, EndEffect
<1> QED
  BY <1>1, <1>2, <1>3, <1>4

-----------------------------------------------------------------------------
(* The walks *)

\* A column of a sensor, and the only sensor it belongs to.
LEMMA Block ==
    ASSUME IInv, NEW off \in Offsets, Layout(off), NEW n \in 1 .. available,
           NEW m \in 1 .. Filled(n)
    PROVE  /\ m \in Nat /\ off[n][m] \in Nat /\ off[n][m + 1] \in Nat
           /\ off[n][m + 1] = off[n][m] + Len(Cols(n, m))
           /\ \A c \in off[n][m] + 1 .. off[n][m + 1] : c \in 1 .. Total
<1>1. /\ m \in 1 .. NbKinds + 1 /\ m + 1 \in 1 .. NbKinds + 1
      /\ n \in 1 .. MaxDevices + 1 /\ m \in Nat
  <2>1. Filled(n) \in 0 .. NbKinds
    BY DeviceType
  <2>2. /\ NbKinds \in Nat /\ available \in Nat /\ MaxDevices \in Nat
        /\ available <= MaxDevices
    BY ControlType
  <2> QED
    BY <2>1, <2>2
<1>2. off[n][m] \in Nat /\ off[n][m + 1] \in Nat
  BY <1>1, OffType
<1>3. /\ off[n][m + 1] = off[n][m] + Len(Cols(n, m))
      /\ off[n][m + 1] <= Total
  BY DEF Layout
<1>4. Total \in Nat
  BY FilledSlots
<1> QED
  BY <1>1, <1>2, <1>3, <1>4

LEMMA OneBlock ==
    ASSUME IInv, NEW off \in Offsets, Layout(off),
           NEW n \in 1 .. available, NEW m \in 1 .. Filled(n),
           NEW n2 \in 1 .. available, NEW m2 \in 1 .. Filled(n2),
           NEW c \in off[n][m] + 1 .. off[n][m + 1],
           c \in off[n2][m2] + 1 .. off[n2][m2 + 1]
    PROVE  n = n2 /\ m = m2
<1>1. /\ n \in Nat /\ m \in Nat /\ c \in Nat
      /\ off[n][m] \in Nat /\ off[n][m + 1] \in Nat
  <2>1. m \in Nat /\ off[n][m] \in Nat /\ off[n][m + 1] \in Nat
    BY Block
  <2> QED
    BY <2>1
<1>2. /\ n2 \in Nat /\ m2 \in Nat
      /\ off[n2][m2] \in Nat /\ off[n2][m2 + 1] \in Nat
  <2>1. m2 \in Nat /\ off[n2][m2] \in Nat /\ off[n2][m2 + 1] \in Nat
    BY Block
  <2> QED
    BY <2>1
<1>3. ~(n < n2 \/ (n = n2 /\ m < m2))
  <2>1. n < n2 \/ (n = n2 /\ m < m2) => off[n][m + 1] <= off[n2][m2]
    BY DEF Layout
  <2> QED
    BY <1>1, <1>2, <2>1
<1>4. ~(n2 < n \/ (n2 = n /\ m2 < m))
  <2>1. n2 < n \/ (n2 = n /\ m2 < m) => off[n2][m2 + 1] <= off[n][m]
    BY DEF Layout
  <2> QED
    BY <1>1, <1>2, <2>1
<1> QED
  BY <1>1, <1>2, <1>3, <1>4

LEMMA EndInitWalk ==
    ASSUME IInv, EndInit, NEW off \in Offsets, Layout(off)
    PROVE  WalkInv(off)'
<1>1. /\ \A n : Filled(n)' = Filled(n)
  BY Frame DEF EndInit
<1>2. /\ labels = <<>> /\ UNCHANGED <<labels, available, sensor_count, d, s>>
      /\ d = 0 /\ s = 0 /\ pc' \in {"ended", "label"}
      /\ DOMAIN results' = 1 .. sensor_count
  BY DEF EndInit, IInv, ControlInv, building
<1>3. off[1][1] = 0
  BY DEF Layout
<1>4. Len(labels)' = 0
  BY <1>2
<1>5. ASSUME NEW n \in 1 .. available, NEW m \in 1 .. Filled(n),
             NEW c \in off[n][m] + 1 .. off[n][m + 1]
      PROVE  ~(c <= Len(labels)')
  <2>1. c \in 1 .. Total
    BY Block
  <2> QED
    BY <1>4, <2>1, FilledSlots
<1> QED
  BY <1>1, <1>2, <1>3, <1>4, <1>5 DEF WalkInv

LEMMA NextDeviceWalk ==
    ASSUME IInv, NextDevice, NEW off \in Offsets, Layout(off), WalkInv(off)
    PROVE  WalkInv(off)'
<1>1. /\ \A n : Filled(n)' = Filled(n) /\ Dev(n)' = Dev(n)
      /\ \A n, m : Cols(n, m)' = Cols(n, m) /\ Fun(n, m)' = Fun(n, m)
  BY Frame DEF NextDevice
<1>2. /\ UNCHANGED <<available, sensor_count, pc, labels, results, current,
                      sample>>
      /\ d' = d + 1 /\ s' = 0
  BY DEF NextDevice, building
<1>3. d + 1 \in 1 .. device_count /\ d + 1 \in 1 .. available
  BY ControlType DEF NextDevice
<1>4. s = Filled(d + 1)
  <2>1. devices[d + 1].count \in Nat /\ Filled(d + 1) = devices[d + 1].count
    BY <1>3, DeviceType DEF Filled
  <2>2. s <= devices[d + 1].count /\ s >= devices[d + 1].count
    BY DEF NextDevice, IInv, ControlInv
  <2> QED
    BY <2>1, <2>2, ControlType
<1>5. off[d' + 1][s' + 1] = off[d + 1][s + 1]
  <2>1. off[(d + 1) + 1][1] = off[d + 1][s + 1]
    BY <1>3, <1>4 DEF Layout
  <2> QED
    BY <1>2, <2>1
<1> QED
  BY <1>1, <1>2, <1>5 DEF WalkInv, Labelled, Read

LEMMA LabelWalk ==
    ASSUME IInv, LabelSensor, NEW off \in Offsets, Layout(off), WalkInv(off)
    PROVE  WalkInv(off)'
<1>1. /\ \A n : Filled(n)' = Filled(n) /\ Dev(n)' = Dev(n)
      /\ \A n, m : Cols(n, m)' = Cols(n, m) /\ Fun(n, m)' = Fun(n, m)
  BY Frame DEF LabelSensor
<1>2. /\ UNCHANGED <<available, sensor_count, pc, results, current, sample, d>>
      /\ s' = s + 1 /\ pc = "label" /\ Here
      /\ labels' = labels \o Cols(d + 1, s + 1)
  BY HereSensor DEF LabelSensor, building
<1>3. PICK e \in 1 .. available, j \in 1 .. NbKinds :
        /\ e = d + 1 /\ j = s + 1 /\ j \in 1 .. Filled(e)
        /\ Cols(e, j) \in Seq(Blocks)
  BY <1>2, HereSensor
<1>4. /\ off[e][j] \in Nat /\ off[e][j + 1] \in Nat
      /\ off[e][j + 1] = off[e][j] + Len(Cols(e, j)) /\ (s + 1) + 1 = s + 2
  BY <1>2, <1>3, HereColumns, HereSensor
<1>5. Len(labels) = off[e][j] /\ labels \in Seq(Blocks)
  BY <1>2, <1>3, TableType DEF WalkInv
<1>6. /\ Len(labels') = off[e][j + 1]
      /\ \A c \in 1 .. off[e][j + 1] :
            labels'[c] = IF c <= off[e][j] THEN labels[c]
                                           ELSE Cols(e, j)[c - off[e][j]]
  <2>1. labels' = labels \o Cols(e, j)
    BY <1>2, <1>3
  <2>2. /\ Len(labels') = Len(labels) + Len(Cols(e, j))
        /\ \A c \in 1 .. Len(labels) + Len(Cols(e, j)) :
              labels'[c] = IF c <= Len(labels) THEN labels[c]
                                               ELSE Cols(e, j)[c - Len(labels)]
    <3>1. labels \in Seq(Blocks) /\ Cols(e, j) \in Seq(Blocks)
      BY <1>3, <1>5
    <3> QED
      BY <2>1, <3>1, ConcatProperties
  <2> QED
    BY <1>4, <1>5, <2>2
<1>7. Len(labels)' = off[d' + 1][s' + 1]
  BY <1>2, <1>3, <1>6
<1>8. ASSUME NEW n \in 1 .. available, NEW m \in 1 .. Filled(n),
             NEW c \in off[n][m] + 1 .. off[n][m + 1], c <= Len(labels')
      PROVE  Labelled(c, n, m, off)'
  <2>1. c \in Nat /\ c >= 1
    <3>1. c \in 1 .. Total
      BY Block
    <3> QED
      BY <3>1, FilledSlots
  <2>2. c \in 1 .. off[e][j + 1]
    BY <1>4, <1>6, <1>8, <2>1
  <2>3. CASE c <= off[e][j]
    <3>1. labels[c] = Cols(n, m)[c - off[n][m]]
      BY <1>2, <1>5, <2>3 DEF WalkInv, Labelled
    <3> QED
      BY <1>1, <1>6, <2>2, <2>3, <3>1 DEF Labelled
  <2>4. CASE ~(c <= off[e][j])
    <3>1. c \in off[e][j] + 1 .. off[e][j + 1]
      BY <1>4, <2>2, <2>4
    <3>2. n = e /\ m = j
      BY <1>3, <3>1, OneBlock
    <3> QED
      BY <1>1, <1>6, <2>2, <2>4, <3>2 DEF Labelled
  <2> QED
    BY <2>3, <2>4
<1> QED
  BY <1>1, <1>2, <1>7, <1>8 DEF WalkInv

LEMMA GetWalk ==
    ASSUME IInv, GetSensor, NEW off \in Offsets, Layout(off), WalkInv(off)
    PROVE  WalkInv(off)'
<1>1. CASE pc' = "clean"
  BY <1>1 DEF WalkInv
<1>2. CASE pc' # "clean"
  <2>1. /\ \A n : Filled(n)' = Filled(n) /\ Dev(n)' = Dev(n)
        /\ \A n, m : Cols(n, m)' = Cols(n, m) /\ Fun(n, m)' = Fun(n, m)
    BY <1>2, Frame DEF GetSensor
  <2>2. PICK e \in 1 .. available, j \in 1 .. NbKinds :
          /\ e = d + 1 /\ j = s + 1 /\ j \in 1 .. Filled(e)
          /\ sensor.data.columns = Cols(e, j) /\ sensor.fun = Fun(e, j)
    BY HereSensor DEF GetSensor
  <2>3. /\ off[e][j] \in Nat /\ off[e][j + 1] \in Nat
        /\ off[e][j + 1] = off[e][j] + Len(Cols(e, j)) /\ (s + 1) + 1 = s + 2
    BY <2>2, HereColumns, HereSensor DEF GetSensor
  <2>4. /\ UNCHANGED <<available, sensor_count, pc, labels, sample, d>>
        /\ s' = s + 1 /\ pc = "get"
        /\ current = off[e][j] /\ current' = off[e][j + 1]
        /\ results' = [c \in 1 .. sensor_count |->
                         IF c \in off[e][j] + 1 .. off[e][j + 1]
                         THEN [dev |-> Dev(e), kind |-> Fun(e, j),
                               item |-> Cols(e, j)[c - off[e][j]].item,
                               at |-> sample]
                         ELSE results[c]]
    <3>1. pc = "get" /\ current = off[e][j]
      BY <2>2 DEF GetSensor, WalkInv
    <3> QED
      BY <1>2, <2>2, <2>3, <3>1 DEF GetSensor, building, Dev
  <2>5. Len(labels)' = sensor_count' /\ current' = off[d' + 1][s' + 1]
    BY <2>2, <2>3, <2>4 DEF WalkInv
  <2>6. Total = sensor_count
    BY <2>4, ControlType DEF Total
  <2>7. ASSUME NEW n \in 1 .. available, NEW m \in 1 .. Filled(n),
               NEW c \in off[n][m] + 1 .. off[n][m + 1]
        PROVE  /\ c <= Len(labels)' => Labelled(c, n, m, off)'
               /\ c <= current' => Read(c, n, m, off)'
    <3>1. c \in 1 .. sensor_count /\ c \in Nat
      <4>1. c \in 1 .. Total
        BY Block
      <4> QED
        BY <2>6, <4>1, FilledSlots
    <3>2. c <= Len(labels)' => Labelled(c, n, m, off)'
      BY <2>1, <2>4 DEF WalkInv, Labelled
    <3>3. ASSUME c <= current' PROVE Read(c, n, m, off)'
      <4>1. CASE c \in off[e][j] + 1 .. off[e][j + 1]
        <5>1. n = e /\ m = j
          BY <2>2, <4>1, OneBlock
        <5> QED
          BY <2>1, <2>4, <3>1, <4>1, <5>1 DEF Read
      <4>2. CASE c \notin off[e][j] + 1 .. off[e][j + 1]
        <5>1. c <= current
          BY <2>3, <2>4, <3>1, <3>3, <4>2
        <5>2. Read(c, n, m, off)
          BY <2>4, <5>1 DEF WalkInv
        <5> QED
          BY <2>1, <2>4, <3>1, <4>2, <5>2 DEF Read
      <4> QED
        BY <4>1, <4>2
    <3> QED
      BY <3>2, <3>3
  <2> QED
    BY <2>1, <2>4, <2>5, <2>7 DEF WalkInv
<1> QED
  BY <1>1, <1>2

LEMMA EndWalkWalk ==
    ASSUME IInv, EndWalk, NEW off \in Offsets, Layout(off), WalkInv(off)
    PROVE  WalkInv(off)'
<1>1. /\ \A n : Filled(n)' = Filled(n) /\ Dev(n)' = Dev(n)
      /\ \A n, m : Cols(n, m)' = Cols(n, m) /\ Fun(n, m)' = Fun(n, m)
  BY Frame DEF EndWalk
<1>2. /\ UNCHANGED <<available, sensor_count, labels, results, current, sample>>
      /\ d' = 0 /\ s' = 0 /\ DOMAIN results = 1 .. sensor_count
  BY DEF EndWalk, building, WalkInv
<1>3. off[d + 1][s + 1] = sensor_count
  <2>1. d = device_count /\ s = 0
    BY ControlType DEF EndWalk, IInv, ControlInv
  <2>2. Filled(slot) = 0 /\ slot = d + 1
    BY <2>1, ControlType DEF EndWalk, Filled, slot
  <2>3. Total = sensor_count
    BY ControlType DEF Total, EndWalk
  <2> QED
    BY <2>1, <2>2, <2>3 DEF Layout
<1>4. off[1][1] = 0
  BY DEF Layout
<1>5. CASE pc = "label"
  <2>1. pc' = "get" /\ Len(labels) = sensor_count /\ current = 0
    BY <1>3, <1>5 DEF EndWalk, WalkInv, IInv, ControlInv
  <2>2. ASSUME NEW n \in 1 .. available, NEW m \in 1 .. Filled(n),
               NEW c \in off[n][m] + 1 .. off[n][m + 1]
        PROVE  ~(c <= current)
    BY <2>1, Block, FilledSlots
  <2> QED
    BY <1>1, <1>2, <1>4, <1>5, <2>1, <2>2 DEF WalkInv, Labelled
<1>6. CASE pc = "get"
  <2>1. pc' = "use" /\ Len(labels) = sensor_count /\ current = sensor_count
    BY <1>3, <1>6 DEF EndWalk, WalkInv
  <2> QED
    BY <1>1, <1>2, <1>6, <2>1 DEF WalkInv, Labelled, Read
<1> QED
  BY <1>5, <1>6 DEF EndWalk

LEMMA UseWalk ==
    ASSUME IInv, UseValues, NEW off \in Offsets, Layout(off), WalkInv(off)
    PROVE  WalkInv(off)'
<1>1. CASE pc' = "clean"
  BY <1>1 DEF WalkInv
<1>2. CASE pc' = "get" /\ current' = 0
  <2>1. /\ \A n : Filled(n)' = Filled(n) /\ Dev(n)' = Dev(n)
        /\ \A n, m : Cols(n, m)' = Cols(n, m) /\ Fun(n, m)' = Fun(n, m)
    BY <1>2, Frame DEF UseValues
  <2>2. /\ UNCHANGED <<available, sensor_count, labels, results, d, s>>
        /\ d = 0 /\ s = 0 /\ pc = "use" /\ off[1][1] = 0
    BY DEF UseValues, building, IInv, ControlInv, Layout
  <2>3. ASSUME NEW n \in 1 .. available, NEW m \in 1 .. Filled(n),
               NEW c \in off[n][m] + 1 .. off[n][m + 1]
        PROVE  ~(c <= current')
    <3>1. c \in 1 .. Total
      BY Block
    <3> QED
      BY <1>2, <3>1, FilledSlots
  <2> QED
    BY <1>2, <2>1, <2>2, <2>3 DEF WalkInv, Labelled
<1> QED
  BY <1>1, <1>2 DEF UseValues

LEMMA ColumnStep == IInv /\ [Next]_vars => ColumnInv'
<1> SUFFICES ASSUME IInv, [Next]_vars PROVE ColumnInv'
  OBVIOUS
<1>1. PICK off \in Offsets : Layout(off) /\ WalkInv(off)
  BY DEF IInv, ColumnInv
<1>2. CASE NvmlInit \/ OpenDevice \/ InitSensor \/ EndDevice
  <2>1. PICK new \in Offsets : Layout(new)'
    BY <1>1, <1>2, LayoutStep
  <2>2. pc' \notin {"label", "get", "use"}
    BY <1>2 DEF NvmlInit, OpenDevice, InitSensor, EndDevice
  <2>3. WalkInv(new)'
    BY <2>2 DEF WalkInv
  <2> QED
    BY <2>1, <2>3 DEF ColumnInv, Offsets
<1>3. CASE /\ UNCHANGED <<building, devices, device_count>>
           /\ pc = "sensor" <=> pc' = "sensor"
           /\ ~(NvmlInit \/ OpenDevice \/ InitSensor \/ EndDevice)
  <2>1. Layout(off)'
    BY <1>1, <1>3, Frame
  <2>2. WalkInv(off)'
    <3>1. CASE CleanSensor \/ Shutdown
      BY <3>1 DEF CleanSensor, Shutdown, WalkInv
    <3>2. CASE UNCHANGED vars
      <4>1. /\ \A n : Filled(n)' = Filled(n) /\ Dev(n)' = Dev(n)
            /\ \A n, m : Cols(n, m)' = Cols(n, m) /\ Fun(n, m)' = Fun(n, m)
        BY <1>3, Frame
      <4>2. UNCHANGED <<pc, available, sensor_count, d, s, labels, results,
                        current, sample>>
        BY <3>2 DEF vars, building, walk
      <4> QED
        BY <1>1, <4>1, <4>2 DEF WalkInv, Labelled, Read
    <3> QED
      BY <1>1, <1>3, <3>1, <3>2, EndInitWalk, NextDeviceWalk, LabelWalk,
         GetWalk, EndWalkWalk, UseWalk DEF Next, Terminated
  <2> QED
    BY <2>1, <2>2 DEF ColumnInv, Offsets
<1> QED
  BY <1>2, <1>3, Storing

-----------------------------------------------------------------------------
(* The memory *)

LEMMA LiveStep == IInv /\ [Next]_vars => LiveInv'
<1> SUFFICES ASSUME IInv, [Next]_vars PROVE LiveInv'
  OBVIOUS
<1>l. LiveInv
  BY DEF IInv
<1>o. \A n \in 1 .. available : \A m \in 1 .. Filled(n) :
          /\ n \in Nat /\ n > 0 /\ m \in Nat /\ m > 0 /\ m \in 1 .. NbKinds
  <2> TAKE n \in 1 .. available
  <2>1. Filled(n) \in 0 .. NbKinds /\ NbKinds \in Nat
    BY DeviceType, ControlType
  <2> QED
    BY <2>1
<1>1. CASE NvmlInit
  <2>1. ASSUME NEW n \in 1 .. available PROVE Filled(n) = 0
    BY <1>1, InitStored DEF Filled, NvmlInit
  <2>2. live = {} /\ live' = live
    BY <1>1, <1>l, <2>1 DEF LiveInv, NvmlInit, memory
  <2>3. pc' # "cleaned"
    BY <1>1 DEF NvmlInit
  <2> QED
    BY <2>2, <2>3 DEF LiveInv
<1>2. CASE OpenDevice \/ EndDevice
  <2>1. /\ SameSensors /\ UNCHANGED <<available, live>>
        /\ pc' \in {"device", "sensor"}
    BY <1>2, OpenEffect, EndEffect DEF OpenDevice, EndDevice, memory
  <2>2. ASSUME NEW id \in live
        PROVE  \E n \in 1 .. available : \E m \in 1 .. Filled(n)' :
                   Id(n, m)' = id
    <3>1. PICK n \in 1 .. available : \E m \in 1 .. Filled(n) : Id(n, m) = id
      BY <1>l DEF LiveInv
    <3>m. PICK m \in 1 .. Filled(n) : Id(n, m) = id
      BY <3>1
    <3>2. m \in 1 .. Filled(n)' /\ Id(n, m)' = id
      BY <1>o, <2>1, <3>m DEF SameSensors
    <3> QED
      BY <3>2
  <2> QED
    BY <2>1, <2>2 DEF LiveInv
<1>3. CASE InitSensor
  <2>1. /\ UNCHANGED <<available, pc>> /\ pc = "sensor"
        /\ slot \in 1 .. available /\ slot' = slot
        /\ \A n \in 1 .. available : n # slot => Filled(n)' = Filled(n)
        /\ Filled(slot) = device_sensors /\ Filled(slot)' = device_sensors'
        /\ device_sensors \in 0 .. NbKinds - 1
        /\ \A n \in 1 .. available : \A m \in 1 .. Filled(n) :
              Id(n, m)' = Id(n, m)
    BY <1>3, NewSensor
  <2>2. device_sensors' \in {device_sensors, device_sensors + 1}
    BY <1>3, SensorEffect DEF Found
  <2>3. ASSUME NEW id \in live
        PROVE  \E n \in 1 .. available : \E m \in 1 .. Filled(n)' :
                   Id(n, m)' = id
    <3>1. PICK n \in 1 .. available : \E m \in 1 .. Filled(n) : Id(n, m) = id
      BY <1>l DEF LiveInv
    <3>m. PICK m \in 1 .. Filled(n) : Id(n, m) = id
      BY <3>1
    <3>2. m \in 1 .. Filled(n)'
      BY <1>o, <2>1, <2>2, <3>m
    <3> QED
      BY <2>1, <3>2, <3>m
  <2>4. ASSUME NEW answer \in Answers, answer # <<>>, Found(answer)
        PROVE  \E n \in 1 .. available : \E m \in 1 .. Filled(n)' :
                   Id(n, m)' = allocs + 1
    <3>1. PICK e \in 1 .. available, j \in Nat :
              e = slot /\ j = device_sensors + 1
      BY <2>1
    <3>2. Id(slot, j)' = allocs + 1
      BY <1>3, <2>4, <3>1, FoundSensor
    <3>3. Id(e, j)' = allocs + 1
      BY <2>1, <3>1, <3>2
    <3>4. j \in 1 .. Filled(e)'
      BY <2>1, <2>4, <3>1 DEF Found
    <3> QED
      BY <3>3, <3>4
  <2>5. ASSUME NEW id \in live'
        PROVE  \E n \in 1 .. available : \E m \in 1 .. Filled(n)' :
                   Id(n, m)' = id
    <3>1. CASE id \in live
      BY <2>3, <3>1
    <3>2. CASE id \notin live
      <4>1. PICK answer \in Answers : answer # <<>> /\ Found(answer)
        BY <1>3, <2>5, <3>2, SensorEffect
      <4>2. id = allocs + 1
        BY <2>5, <3>2, <4>1 DEF Found
      <4> QED
        BY <2>4, <4>1, <4>2
    <3> QED
      BY <3>1, <3>2
  <2> QED
    BY <2>1, <2>5 DEF LiveInv
<1>4. CASE /\ UNCHANGED <<building, devices, device_count>>
           /\ pc = "sensor" <=> pc' = "sensor"
           /\ ~(NvmlInit \/ OpenDevice \/ InitSensor \/ EndDevice)
  <2>1. /\ \A n : Filled(n)' = Filled(n)
        /\ \A n, m : Id(n, m)' = Id(n, m)
        /\ UNCHANGED <<available, device_count>>
    BY <1>4, Frame DEF building
  <2>2. ASSUME UNCHANGED live, pc' # "cleaned",
               \A n \in 1 .. available : \A m \in 1 .. Filled(n) :
                   (pc = "clean" => Ahead(n, m)) /\ pc' = "clean"
                       => Ahead(n, m)'
        PROVE  LiveInv'
    BY <1>l, <2>1, <2>2 DEF LiveInv
  <2>3. CASE EndInit \/ LabelSensor \/ EndWalk
    <3>1. UNCHANGED live /\ pc' \notin {"clean", "cleaned"}
      BY <2>3 DEF EndInit, LabelSensor, EndWalk, memory
    <3> QED
      BY <2>2, <3>1
  <2>4. CASE GetSensor \/ UseValues
    <3>1. /\ UNCHANGED live /\ pc' # "cleaned"
          /\ pc' = "clean" => d' = 0 /\ s' = 0
      BY <2>4 DEF GetSensor, UseValues, memory, IInv, ControlInv
    <3>2. \A n \in 1 .. available : \A m \in 1 .. Filled(n) :
              pc' = "clean" => Ahead(n, m)'
      <4> TAKE n \in 1 .. available
      <4> TAKE m \in 1 .. Filled(n)
      <4>1. n \in Nat /\ n > 0 /\ m \in Nat /\ m > 0
        BY <1>o
      <4> QED
        BY <3>1, <4>1 DEF Ahead
    <3> QED
      BY <2>2, <3>1, <3>2
  <2>5. CASE NextDevice
    <3>1. UNCHANGED <<live, pc>> /\ pc # "cleaned" /\ d' = d + 1 /\ s' = 0
      BY <2>5 DEF NextDevice, memory
    <3>2. Filled(d + 1) = devices[d + 1].count /\ s >= devices[d + 1].count
      BY <2>5, ControlType DEF NextDevice, Filled
    <3>3. \A n \in 1 .. available : \A m \in 1 .. Filled(n) :
              Ahead(n, m) => Ahead(n, m)'
      <4> TAKE n \in 1 .. available
      <4> TAKE m \in 1 .. Filled(n)
      <4>1. n \in Nat /\ m \in Nat /\ m > 0 /\ d \in Nat /\ s \in Nat
        BY <1>o, ControlType
      <4>2. n = d + 1 => ~(m > s)
        <5>1. Filled(n) \in Nat
          BY DeviceType
        <5> QED
          BY <3>2, <4>1, <5>1
      <4> QED
        BY <3>1, <4>1, <4>2 DEF Ahead
    <3> QED
      BY <2>2, <3>1, <3>3
  <2>6. CASE CleanSensor
    <3>1. /\ pc = "clean" /\ pc' = "clean" /\ UNCHANGED d /\ s' = s + 1
          /\ live' = live \ {Id(d + 1, s + 1)}
      BY <2>6, HereSensor DEF CleanSensor
    <3>2. ASSUME NEW id \in live'
          PROVE  \E n \in 1 .. available : \E m \in 1 .. Filled(n) :
                     Id(n, m) = id /\ Ahead(n, m)'
      <4>0. PICK n \in 1 .. available : \E m \in 1 .. Filled(n) :
                Id(n, m) = id /\ Ahead(n, m)
        BY <1>l, <3>1 DEF LiveInv
      <4>1. PICK m \in 1 .. Filled(n) : Id(n, m) = id /\ Ahead(n, m)
        BY <4>0
      <4>2. ~(n = d + 1 /\ m = s + 1)
        BY <3>1, <4>1
      <4>3. Ahead(n, m)'
        BY <1>o, <3>1, <4>1, <4>2, ControlType DEF Ahead
      <4> QED
        BY <4>1, <4>3
    <3> QED
      BY <2>1, <3>1, <3>2 DEF LiveInv
  <2>7. CASE Shutdown
    <3>1. /\ pc = "clean" /\ pc' = "cleaned" /\ d >= device_count
          /\ nvml' = "shut" /\ UNCHANGED live
      BY <2>7 DEF Shutdown, memory
    <3>2. ASSUME NEW id \in live PROVE FALSE
      <4>0. PICK n \in 1 .. available : \E m \in 1 .. Filled(n) : Ahead(n, m)
        BY <1>l, <3>1 DEF LiveInv
      <4>1. PICK m \in 1 .. Filled(n) : Ahead(n, m)
        BY <4>0
      <4>2. n > device_count
        BY <1>o, <3>1, <4>1, ControlType DEF Ahead
      <4>3. Filled(n) = 0
        BY <3>1, <4>2, ControlType DEF Filled
      <4> QED
        BY <4>1, <4>3
    <3> QED
      BY <3>1, <3>2 DEF LiveInv
  <2>8. CASE UNCHANGED vars
    BY <1>l, <2>1, <2>8 DEF LiveInv, vars, walk, memory, Ahead
  <2> QED
    BY <1>4, <2>3, <2>4, <2>5, <2>6, <2>7, <2>8 DEF Next, Terminated
<1> QED
  BY <1>1, <1>2, <1>3, <1>4, Storing

-----------------------------------------------------------------------------
(* The theorems *)

LEMMA Inductive == Spec => []IInv
<1>1. IInv /\ [Next]_vars => IInv'
  BY ControlStep, TableStep, ColumnsStep, ColumnStep, LiveStep DEF IInv
<1> QED
  BY <1>1, InitIInv, PTL DEF Spec

\* The counts of devices, sensors and columns stay within the table, in every
\* step of the initialisation and of the walks.
THEOREM TypeCorrect == Spec => []TypeOK
<1>1. IInv => TypeOK
  BY DEF IInv, ControlInv
<1> QED
  BY <1>1, Inductive, PTL

\* Whichever devices and sensors are left out, labels and values are those of
\* the same columns, all of them different, and the values are of this sample.
THEOREM ValuesMatchLabels == Spec => []ColumnsMatch
<1>1. IInv => ColumnsMatch
  <2> SUFFICES ASSUME IInv, pc = "use"
               PROVE  /\ current = sensor_count /\ Len(labels) = sensor_count
                      /\ \A c \in 1 .. sensor_count :
                            results[c] = [dev |-> labels[c].dev,
                                          kind |-> labels[c].kind,
                                          item |-> labels[c].item,
                                          at |-> sample]
                      /\ \A a, b \in 1 .. sensor_count :
                            labels[a] = labels[b] => a = b
    BY DEF ColumnsMatch
  <2>1. PICK off \in Offsets : Layout(off) /\ WalkInv(off)
    BY DEF IInv, ColumnInv
  <2>2. /\ current = sensor_count /\ Len(labels) = sensor_count
        /\ Total = sensor_count /\ sensor_count \in Nat
    BY <2>1, ControlType DEF WalkInv, Total
  \* Each column is an item of one sensor.
  <2> DEFINE At(c, n, m, x) ==
        /\ n \in 1 .. device_count /\ m \in 1 .. Filled(n)
        /\ c \in off[n][m] + 1 .. off[n][m + 1]
        /\ x = c - off[n][m] /\ x \in 1 .. Len(Cols(n, m))
        /\ labels[c] = Cols(n, m)[x]
        /\ labels[c].dev = Dev(n) /\ labels[c].kind = Fun(n, m)
        /\ results[c] = [dev |-> Dev(n), kind |-> Fun(n, m),
                         item |-> labels[c].item, at |-> sample]
  <2>3. ASSUME NEW c \in 1 .. sensor_count
        PROVE  \E n \in 1 .. available, m \in 1 .. NbKinds, x \in Nat :
                  At(c, n, m, x)
    <3>1. PICK n \in 1 .. available : \E m \in 1 .. Filled(n) :
              c \in off[n][m] + 1 .. off[n][m + 1]
      BY <2>1, <2>2 DEF Layout
    <3>2. PICK m \in 1 .. Filled(n) : c \in off[n][m] + 1 .. off[n][m + 1]
      BY <3>1
    <3>3. /\ off[n][m] \in Nat
          /\ off[n][m + 1] = off[n][m] + Len(Cols(n, m))
      <4>1. Layout(off) /\ c \in off[n][m] + 1 .. off[n][m + 1]
        BY <2>1, <3>2
      <4>2. off[n][m] \in Nat
        BY <4>1, Block
      <4> QED
        BY <4>1, <4>2 DEF Layout
    <3>4. Filled(n) \in 0 .. NbKinds /\ n \in 1 .. device_count
      BY <3>2, DeviceType, ControlType DEF Filled
    <3>5. m \in 1 .. NbKinds
      BY <3>4, ControlType
    <3>6. Len(Cols(n, m)) \in Nat
      BY <3>5, DeviceType
    <3>7. PICK x \in Nat : x = c - off[n][m] /\ x \in 1 .. Len(Cols(n, m))
      BY <3>2, <3>3, <3>6
    <3>8. Labelled(c, n, m, off) /\ Read(c, n, m, off)
      BY <2>1, <2>2, <3>2 DEF WalkInv
    <3>9. labels[c] = Cols(n, m)[x]
      BY <3>7, <3>8 DEF Labelled
    <3>10. labels[c].dev = Dev(n) /\ labels[c].kind = Fun(n, m)
      BY <3>2, <3>7, <3>9 DEF IInv, ColumnsInv
    <3>11. results[c] = [dev |-> Dev(n), kind |-> Fun(n, m),
                         item |-> labels[c].item, at |-> sample]
      BY <3>7, <3>8, <3>9 DEF Read
    <3> QED
      BY <3>2, <3>4, <3>5, <3>7, <3>9, <3>10, <3>11
  <2>4. \A c \in 1 .. sensor_count :
            results[c] = [dev |-> labels[c].dev, kind |-> labels[c].kind,
                          item |-> labels[c].item, at |-> sample]
    BY <2>3
  <2>5. ASSUME NEW a \in 1 .. sensor_count, NEW b \in 1 .. sensor_count,
               labels[a] = labels[b]
        PROVE  a = b
    <3> HIDE DEF At
    <3>1. PICK n \in 1 .. available, m \in 1 .. NbKinds, x \in Nat :
              At(a, n, m, x)
      BY <2>3
    <3>2. PICK n2 \in 1 .. available, m2 \in 1 .. NbKinds, y \in Nat :
              At(b, n2, m2, y)
      BY <2>3
    <3> USE DEF At
    <3>3. Dev(n) = Dev(n2) /\ Fun(n, m) = Fun(n2, m2)
      BY <2>5, <3>1, <3>2
    <3>4. n = n2
      <4>1. n < n2 => Dev(n) < Dev(n2)
        BY <3>1, <3>2 DEF IInv, TableInv
      <4>2. n2 < n => Dev(n2) < Dev(n)
        BY <3>1, <3>2 DEF IInv, TableInv
      <4>3. Dev(n) \in Nat
        BY DeviceType
      <4> QED
        BY <3>3, <4>1, <4>2, <4>3
    <3>5. m = m2
      BY <3>1, <3>2, <3>3, <3>4 DEF IInv, TableInv
    <3>6. x = y
      BY <2>5, <3>1, <3>2, <3>4, <3>5 DEF IInv, ColumnsInv
    <3>7. off[n][m] \in Nat
      BY <2>1, <3>1, Block
    <3> QED
      BY <3>1, <3>2, <3>4, <3>5, <3>6, <3>7
  <2> QED
    BY <2>2, <2>4, <2>5
<1> QED
  BY <1>1, Inductive, PTL

\* After the clean-up nothing is left and NVML is shut down, also when a
\* refused read brought the program to its end.
THEOREM EverythingReleased == Spec => []AllReleased
<1>1. IInv => AllReleased
  BY DEF IInv, LiveInv, AllReleased
<1> QED
  BY <1>1, Inductive, PTL
=============================================================================

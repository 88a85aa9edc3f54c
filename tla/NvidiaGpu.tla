------------------------------ MODULE NvidiaGpu ------------------------------
(***************************************************************************)
(* src/nvidia_gpu.c: the table of devices and of their sensors, from which *)
(* devices and sensors that do not answer at the start are left out, and   *)
(* the three walks over it: labels, values, clean-up.                      *)
(*                                                                         *)
(* A column is its device, kind and item.  NVML may refuse any call.       *)
(***************************************************************************)
EXTENDS Naturals, Sequences

CONSTANTS
    MaxDevices,  \* bound on what nvmlDeviceGetCount returns
    Kinds,       \* kinds of sensors, in the order of avaible_sensors[]
    Items        \* kind -> number of columns it may have

ASSUME KindsAssumption ==
    /\ MaxDevices \in Nat
    /\ Kinds \in Seq(STRING)
    /\ \A x, y \in 1 .. Len(Kinds) : Kinds[x] = Kinds[y] => x = y
    /\ \A x \in 1 .. Len(Kinds) : Items[Kinds[x]] \in Nat \ {0}

VARIABLES
    pc,            \* next statement
    available,     \* avaible_device_count
    i, k,          \* device and kind being initialised
    devices,       \* the calloc'ed table
    device_count,  \* slots of it in use
    device_sensors, device_total, \* the counts of init_device()
    sensor_count,  \* columns promised by init_nvidia_gpu()
    d, s,          \* device and sensor slot of the walk under way
    labels, results, current,
    sample,        \* parity of the current sample
    allocs,        \* data blocks allocated so far
    live,          \* those not freed
    nvml           \* "off", "on" or "shut"

building == <<available, i, k, device_sensors, device_total, sensor_count>>
walk     == <<d, s, labels, results, current, sample>>
memory   == <<allocs, live>>
vars == <<pc, building, devices, device_count, walk, memory, nvml>>

NoData == [id |-> 0, columns |-> <<>>]
EmptySlot == [fun |-> "none", data |-> NoData]
EmptyDevice == [device |-> 0, count |-> 0,
                sensors |-> [n \in 1 .. Len(Kinds) |-> EmptySlot]]

Init ==
    /\ pc = "init" /\ available = 0 /\ i = 0 /\ k = 0
    /\ devices = <<>> /\ device_count = 0
    /\ device_sensors = 0 /\ device_total = 0 /\ sensor_count = 0
    /\ d = 0 /\ s = 0 /\ labels = <<>> /\ results = <<>> /\ current = 0
    /\ sample = 0 /\ allocs = 0 /\ live = {} /\ nvml = "off"

-----------------------------------------------------------------------------
(* init_nvidia_gpu() and init_device() *)

\* nvmlInit and nvmlDeviceGetCount; either failing ends the program.
NvmlInit ==
    /\ pc = "init"
    /\ \/ /\ available' \in 0 .. MaxDevices
          /\ devices' = [n \in 1 .. available' |-> EmptyDevice]
          /\ nvml' = "on" /\ pc' = "device"
       \/ /\ nvml' \in {"off", "shut"} /\ pc' = "ended"
          /\ UNCHANGED <<available, devices>>
    /\ UNCHANGED <<i, k, device_sensors, device_total, sensor_count,
                   device_count, walk, memory>>

slot == device_count + 1

\* The handle and the name of device i, which goes to the first free slot.
OpenDevice ==
    /\ pc = "device"
    /\ i < available
    /\ \/ /\ devices' = [devices EXCEPT ![slot].device = i]
          /\ device_sensors' = 0 /\ device_total' = 0 /\ k' = 0
          /\ pc' = "sensor"
          /\ UNCHANGED i
       \/ /\ i' = i + 1
          /\ UNCHANGED <<pc, k, devices, device_sensors, device_total>>
    /\ UNCHANGED <<available, sensor_count, device_count, walk, memory, nvml>>

kind == Kinds[k + 1]

\* A clock sensor keeps the clocks that answer, in their order.
ClockAnswers ==
    {a \in UNION {[1 .. m -> 1 .. Items["clock"]] : m \in 0 .. Items["clock"]} :
        \A x, y \in DOMAIN a : x < y => a[x] < a[y]}

\* The other kinds find all of their columns or none.
AllOrNothing == {<<>>, [n \in 1 .. Items[kind] |-> n]}

Answers == IF kind = "clock" THEN ClockAnswers ELSE AllOrNothing

\* The block init allocates, with its labels; none when nothing was found.
DataBlock(answer) ==
    [id |-> allocs + 1,
     columns |-> [n \in 1 .. Len(answer) |->
                    [dev |-> devices[slot].device, kind |-> kind,
                     item |-> answer[n]]]]

\* Fault: the sensor is put in the slot of its kind, not in the next free one.
InitSensorByKind ==
    /\ pc = "sensor" /\ k < Len(Kinds)
    /\ \E answer \in Answers :
        LET found == answer # <<>>
        IN  /\ devices' =
                 [devices EXCEPT ![slot].sensors[k + 1] =
                     [fun |-> kind,
                      data |-> IF found THEN DataBlock(answer) ELSE @.data]]
            /\ device_sensors' = device_sensors + (IF found THEN 1 ELSE 0)
            /\ device_total' = device_total + Len(answer)
            /\ allocs' = allocs + (IF found THEN 1 ELSE 0)
            /\ live' = IF found THEN live \cup {allocs + 1} ELSE live
    /\ k' = k + 1
    /\ UNCHANGED <<pc, available, i, sensor_count, device_count, walk, nvml>>

\* init_<kind>_sensor(); a failure leaves the slot to the next kind.
InitSensor ==
    /\ pc = "sensor" /\ k < Len(Kinds)
    /\ \E answer \in Answers :
        LET found == answer # <<>>
        IN  /\ devices' =
                 [devices EXCEPT ![slot].sensors[device_sensors + 1] =
                     [fun |-> kind,
                      data |-> IF found THEN DataBlock(answer) ELSE @.data]]
            /\ device_sensors' = device_sensors + (IF found THEN 1 ELSE 0)
            /\ device_total' = device_total + Len(answer)
            /\ allocs' = allocs + (IF found THEN 1 ELSE 0)
            /\ live' = IF found THEN live \cup {allocs + 1} ELSE live
    /\ k' = k + 1
    /\ UNCHANGED <<pc, available, i, sensor_count, device_count, walk, nvml>>

\* A device without any sensor leaves its slot to the next device.
EndDevice ==
    /\ pc = "sensor" /\ k = Len(Kinds)
    /\ devices' = [devices EXCEPT ![slot].count = device_sensors]
    /\ device_count' = device_count + (IF device_total # 0 THEN 1 ELSE 0)
    /\ sensor_count' = sensor_count + device_total
    /\ i' = i + 1
    /\ pc' = "device"
    /\ UNCHANGED <<available, k, device_sensors, device_total,
                   walk, memory, nvml>>

\* add_source() drops a source without columns and forgets its state.
EndInit ==
    /\ pc = "device" /\ i >= available
    /\ pc' = IF sensor_count = 0 THEN "ended" ELSE "label"
    /\ results' = [c \in 1 .. sensor_count |-> [dev |-> 0, kind |-> "none",
                                                item |-> 0, at |-> 0]]
    /\ UNCHANGED <<building, devices, device_count, d, s, labels, current,
                   sample, memory, nvml>>

-----------------------------------------------------------------------------
(* The walks over the table *)

Here == d < device_count /\ s < devices[d + 1].count
sensor == devices[d + 1].sensors[s + 1]

\* The walk passes on to the next device.
NextDevice ==
    /\ pc \in {"label", "get", "clean"}
    /\ d < device_count /\ s >= devices[d + 1].count
    /\ d' = d + 1 /\ s' = 0
    /\ UNCHANGED <<pc, building, devices, device_count, labels, results,
                   current, sample, memory, nvml>>

LabelSensor ==
    /\ pc = "label" /\ Here
    /\ labels' = labels \o sensor.data.columns
    /\ s' = s + 1
    /\ UNCHANGED <<pc, building, devices, device_count, d, results, current,
                   sample, memory, nvml>>

\* Fault: a clock sensor counts the clocks that did not answer too.
GetSensorAllClocks ==
    /\ pc = "get" /\ Here
    /\ current' = current + Items[sensor.fun]
    /\ s' = s + 1
    /\ UNCHANGED <<pc, building, devices, device_count, d, labels, results,
                   sample, memory, nvml>>

\* get_<kind>_sensor() reads the device of the slot; a refusal exits.
GetSensor ==
    /\ pc = "get" /\ Here
    /\ LET cols == sensor.data.columns
       IN  \/ /\ results' =
                   [c \in 1 .. sensor_count |->
                      IF c \in current + 1 .. current + Len(cols)
                      THEN [dev |-> devices[d + 1].device, kind |-> sensor.fun,
                            item |-> cols[c - current].item, at |-> sample]
                      ELSE results[c]]
              /\ current' = current + Len(cols)
              /\ s' = s + 1
              /\ UNCHANGED <<pc, d>>
           \/ /\ pc' = "clean" /\ d' = 0 /\ s' = 0
              /\ UNCHANGED <<results, current>>
    /\ UNCHANGED <<building, devices, device_count, labels, sample,
                   memory, nvml>>

\* Labels and values are complete; the sample is printed.
EndWalk ==
    /\ pc \in {"label", "get"} /\ d >= device_count
    /\ pc' = IF pc = "label" THEN "get" ELSE "use"
    /\ d' = 0 /\ s' = 0
    /\ UNCHANGED <<building, devices, device_count, labels, results, current,
                   sample, memory, nvml>>

\* Another sample, or exit() and moj_clean().
UseValues ==
    /\ pc = "use"
    /\ \/ pc' = "get" /\ sample' = 1 - sample /\ current' = 0
       \/ pc' = "clean" /\ UNCHANGED <<sample, current>>
    /\ UNCHANGED <<building, devices, device_count, d, s, labels, results,
                   memory, nvml>>

CleanSensor ==
    /\ pc = "clean" /\ Here
    /\ live' = live \ {sensor.data.id}
    /\ s' = s + 1
    /\ UNCHANGED <<pc, building, devices, device_count, d, labels, results,
                   current, sample, allocs, nvml>>

\* Fault: nvmlShutdown is missing.
CleanNoShutdown ==
    /\ pc = "clean" /\ d >= device_count
    /\ pc' = "cleaned"
    /\ UNCHANGED <<building, devices, device_count, walk, memory, nvml>>

Shutdown ==
    /\ pc = "clean" /\ d >= device_count
    /\ nvml' = "shut" /\ pc' = "cleaned"
    /\ UNCHANGED <<building, devices, device_count, walk, memory>>

Terminated == pc \in {"ended", "cleaned"} /\ UNCHANGED vars

Next == NvmlInit \/ OpenDevice \/ InitSensor \/ EndDevice \/ EndInit
            \/ NextDevice \/ LabelSensor \/ GetSensor \/ EndWalk \/ UseValues
            \/ CleanSensor \/ Shutdown \/ Terminated

Spec == Init /\ [][Next]_vars

-----------------------------------------------------------------------------
(* Properties *)

TypeOK ==
    /\ pc \in {"init", "device", "sensor", "label", "get", "use", "clean",
               "ended", "cleaned"}
    /\ available \in 0 .. MaxDevices
    /\ i \in 0 .. available /\ device_count \in 0 .. i
    /\ k \in 0 .. Len(Kinds) /\ device_sensors \in 0 .. k
    /\ device_total \in Nat
    /\ Len(devices) = available
    /\ d \in 0 .. device_count /\ s \in 0 .. Len(Kinds)
    /\ current \in 0 .. sensor_count /\ Len(labels) \in 0 .. sensor_count
    /\ live \subseteq 1 .. allocs
    /\ nvml \in {"off", "on", "shut"}

\* Whatever devices and sensors were left out at the start, the number of
\* columns that init announced, the labels and the values agree, no two labels
\* are the same, and each value was read for this sample from the device, the
\* sensor and the item its label names.
ColumnsMatch ==
    pc = "use" =>
        /\ current = sensor_count /\ Len(labels) = sensor_count
        /\ \A c \in 1 .. sensor_count :
               results[c] = [dev |-> labels[c].dev, kind |-> labels[c].kind,
                             item |-> labels[c].item, at |-> sample]
        /\ \A a, b \in 1 .. sensor_count : labels[a] = labels[b] => a = b

\* Once the sensor is taken down nothing it allocated is left and NVML is
\* shut down, also when a refused read led to the exit.
AllReleased == pc = "cleaned" => live = {} /\ nvml = "shut"
=============================================================================

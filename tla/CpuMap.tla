------------------------------- MODULE CpuMap -------------------------------
(***************************************************************************)
(* Which core each thread of an observation gets: Roach2.get_cpu_map and   *)
(* then Dspsr.get_cpu_map (roach2.py, dspsr.py), over what they read from  *)
(* the machine.  An interface is named for the half of the band it         *)
(* receives.  A map is a function from the cores in use to names.          *)
(***************************************************************************)
EXTENDS Naturals, Sequences, FiniteSets

CONSTANTS
  NCpu,          \* system_settings['ncpu']
  Interfaces,    \* the interfaces, in the order of the config
  Pipelines      \* the dspsr processes, in the order of the config

ASSUME CpuAssumption == NCpu \in Nat \ {0}

Cores == 0..NCpu-1

Kernel(i)  == <<"kernel", i>>
Threads(i) == <<<<"socket", i>>, <<"dada", i>>>>
Pipeline(p) == <<<<"dspsr", p>>, <<"dspsr", p>>>>

(* Cores of mask that are not in map are given out in ascending order, and *)
(* names are taken from the end of need; need is what is left of it.       *)
Give(map, need, mask) ==
  LET free    == (mask \cap Cores) \ DOMAIN map
      rank(c) == Cardinality({d \in free : d <= c})
      given   == {c \in free : rank(c) <= Len(need)}
  IN [map  |-> [c \in DOMAIN map \cup given |->
                  IF c \in DOMAIN map THEN map[c]
                                     ELSE need[Len(need) + 1 - rank(c)]],
      need |-> SubSeq(need, 1, Len(need) - Cardinality(given))]

(* Variant: any core will do.                                              *)
PlaceAnywhere(map, need, mask) == Give(map, need, Cores).map

(* First on the cores that are local to the device, then on any.           *)
Place(map, need, mask) ==
  LET near == Give(map, need, mask) IN Give(near.map, near.need, Cores).map

(* busiest is the core that took most of its interrupts in half a second:  *)
(* it is taken from whatever had it before, with a warning.                *)
TakeCore(map, i, busiest) ==
  [c \in DOMAIN map \cup {busiest[i]} |->
     IF c = busiest[i] THEN Kernel(i) ELSE map[c]]

(* Variant: the second thread of an interface is forgotten.                *)
PlaceInterfaceOnce(map, i, busiest, local) ==
  Place(TakeCore(map, i, busiest), <<Threads(i)[1]>>, local[i])

PlaceInterface(map, i, busiest, local) ==
  Place(TakeCore(map, i, busiest), Threads(i), local[i])

(* The maps after none, one, two and more of the interfaces.               *)
AfterInterfaces(map, interfaces, busiest, local) ==
  LET after[k \in 0..Len(interfaces)] ==
        IF k = 0 THEN map
        ELSE PlaceInterface(after[k-1], interfaces[k], busiest, local)
  IN after

Roach2Map(map, interfaces, busiest, local) ==
  AfterInterfaces(map, interfaces, busiest, local)[Len(interfaces)]

AfterPipelines(map, pipelines, local) ==
  LET after[k \in 0..Len(pipelines)] ==
        IF k = 0 THEN map
        ELSE Place(after[k-1], Pipeline(pipelines[k]), local[pipelines[k]])
  IN after

DspsrMap(map, pipelines, local) ==
  AfterPipelines(map, pipelines, local)[Len(pipelines)]

CoresOf(map, t) == {c \in DOMAIN map : map[c] = t}
=============================================================================

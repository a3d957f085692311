-------------------------------- MODULE CbfLinks --------------------------------
(***************************************************************************)
(* How CBFParser links the records of an ECU: a variant's services, trouble*)
(* codes and environments are copied from the ECU's tables by index; then  *)
(* decode_ecu drops the inputs its payloads hold already and gathers the   *)
(* downloads that share a payload.                                         *)
(*                                                                         *)
(* A record of a table is its index.  HashMap's order is any order.        *)
(***************************************************************************)
EXTENDS Integers, Sequences, SequencesExt, FiniteSets

CONSTANT Files   \* what was read: the sizes of the ECU's tables (services, dtcs,
                 \* envs), and of a variant its pool of services, of dtcs (index,
                 \* from, count), of envs, and its xrefs; a service's payload and
                 \* inputs (start, bits, dump); the downloads (payload, outputs);
                 \* whether the build checks for overflows

Highest == 2147483647
I32 == -Highest - 1 .. Highest
Byte8 == 0..255
IsFile(f) ==
  /\ f.services \in Nat /\ f.dtcs \in Nat /\ f.envs \in Nat /\ f.checked \in BOOLEAN
  /\ f.servicePool \in Seq(I32) /\ f.envPool \in Seq(I32) /\ f.xrefs \in Seq(I32)
  /\ f.dtcPool \in Seq([index : I32, from : I32, count : I32])
  /\ f.payload \in Seq(Byte8)
  /\ f.inputs \in Seq([start : Nat, bits : Nat, dump : Seq(Byte8)])
  /\ f.downloads \in Seq([payload : Seq(Byte8) \ {<<>>}, outputs : Seq(Nat)])
ASSUME FilesAssumption == \A f \in Files : IsFile(f)

VARIABLES
  cbf,        \* the file
  step,       \* what is linked next, "done" or "panicked"
  services, dtcs, inputs,
  removed,    \* inputs that delete_input_params has removed
  map,        \* payloads whose downloads are not gathered yet
  downloads

linkVars == <<cbf, step, services, dtcs, inputs, removed, map, downloads>>

Nobody == -1        \* Service::default()

\* A set of places, the least first; what a list has there; where a place comes.
InOrder(places) ==
  [k \in 1..Cardinality(places) |->
     CHOOSE p \in places : Cardinality({q \in places : q < p}) = k - 1]
Kept(list, places) ==
  [k \in 1..Cardinality(places) |-> list[InOrder(places)[k]]]
Place(places, p) == Cardinality({q \in places : q <= p})
-----------------------------------------------------------------------------
\* decode_ecu's map of downloads by payload.
SamePayload(p) == {i \in DOMAIN cbf.downloads : cbf.downloads[i].payload = p}
Payloads == {cbf.downloads[i].payload : i \in DOMAIN cbf.downloads}

LinksInit ==
  /\ cbf \in Files /\ step = "services"
  /\ services = <<>> /\ dtcs = <<>> /\ inputs = cbf.inputs /\ removed = 0
  /\ map = Payloads /\ downloads = <<>>

Panic == step' = "panicked" /\ UNCHANGED <<cbf, services, dtcs, inputs, removed, map, downloads>>

\* Fault: an index is taken for a service's place unchecked.
LinkServices_Unchecked ==
  /\ step = "services" /\ step' = "dtcs"
  /\ services' = cbf.servicePool
  /\ UNCHANGED <<cbf, dtcs, inputs, removed, map, downloads>>

\* create_diag_services: an index that is not in the table is an empty service.
LinkServices ==
  /\ step = "services" /\ step' = "dtcs"
  /\ services' = [i \in DOMAIN cbf.servicePool |->
                    IF cbf.servicePool[i] \in 0..cbf.services - 1 THEN cbf.servicePool[i] ELSE Nobody]
  /\ UNCHANGED <<cbf, dtcs, inputs, removed, map, downloads>>

Known(entry) == entry.index \in 0..cbf.dtcs - 1

\* pool.sort_by, which is stable.
Smaller(i) ==
  {j \in DOMAIN cbf.dtcPool :
     \/ cbf.dtcPool[j].index < cbf.dtcPool[i].index
     \/ cbf.dtcPool[j].index = cbf.dtcPool[i].index /\ j < i}
Sorted(k) ==
  cbf.dtcPool[CHOOSE i \in DOMAIN cbf.dtcPool : Cardinality(Smaller(i)) = k - 1]

\* Fault: the ranges are taken from the pool after it was sorted.
LinkDtc_Sorted(i) ==
  IF Known(cbf.dtcPool[i]) THEN [Sorted(i) EXCEPT !.index = cbf.dtcPool[i].index] ELSE Sorted(i)

\* An entry is its trouble code's; where it names none, the sorted pool is
\* asked at the same place, and may give a trouble code a second time.
LinkDtc(i) == IF Known(cbf.dtcPool[i]) THEN cbf.dtcPool[i] ELSE Sorted(i)
Link(entry) == [index |-> entry.index, from |-> entry.from, count |-> entry.count, envs |-> <<>>]

\* create_dtcs.
LinkDtcs ==
  /\ step = "dtcs" /\ step' = "envs"
  /\ dtcs' = Kept([i \in DOMAIN cbf.dtcPool |-> Link(LinkDtc(i))],
                  {i \in DOMAIN cbf.dtcPool : Known(LinkDtc(i))})
  /\ UNCHANGED <<cbf, services, inputs, removed, map, downloads>>

\* The environments of the variant; one at its own place is listed twice.
OwnPlaces == {i \in DOMAIN cbf.envPool : cbf.envPool[i] = i - 1}
Envs ==
  Kept(cbf.envPool, {i \in DOMAIN cbf.envPool : cbf.envPool[i] \in 0..cbf.envs - 1})
    \o Kept(cbf.envPool, OwnPlaces)

\* A code's range of xrefs, of two i32; unchecked, a sum too large is below
\* zero and the range empty, a sum too small leaves one that begins below zero.
Overlong(d) ==
  IF d.from >= 0 THEN d.count > Highest - d.from ELSE d.count < -Highest - 1 - d.from
XrefsOf(d) == IF Overlong(d) THEN {} ELSE d.from + 1 .. d.from + d.count
Outside(d) == (Overlong(d) /\ d.from < 0) \/ ~(XrefsOf(d) \subseteq DOMAIN cbf.xrefs)

\* Fault: an environment listed twice is given twice.
EnvsOf_All(d) ==
  FlattenSeq([k \in 1..d.count |->
    Kept(Envs, {e \in DOMAIN Envs : d.from + k \in DOMAIN cbf.xrefs /\ Envs[e] = cbf.xrefs[d.from + k]})])

EnvsOf(d) ==
  Kept(cbf.xrefs, {p \in DOMAIN cbf.xrefs : p \in XrefsOf(d) /\ cbf.xrefs[p] \in Range(Envs)})

\* create_env_ctxs: two lookups are not checked.
LinkEnvs ==
  /\ step = "envs"
  /\ IF \/ \E i \in OwnPlaces : i > cbf.envs
        \/ cbf.checked /\ \E i \in DOMAIN dtcs : Overlong(dtcs[i])
        \/ Envs # <<>> /\ \E i \in DOMAIN dtcs : Outside(dtcs[i])
     THEN Panic
     ELSE /\ step' = "inputs"
          /\ dtcs' = [i \in DOMAIN dtcs |-> [dtcs[i] EXCEPT !.envs = EnvsOf(dtcs[i])]]
          /\ UNCHANGED <<cbf, services, inputs, removed, map, downloads>>
-----------------------------------------------------------------------------
\* What the payload holds at the input's byte.
Repeated(input) ==
  /\ input.bits = 8 /\ input.start \div 8 < Len(cbf.payload) /\ input.dump # <<>>
  /\ cbf.payload[(input.start \div 8) + 1] = Head(input.dump)
ToDelete == InOrder({i \in DOMAIN cbf.inputs : Repeated(cbf.inputs[i])})

\* Fault: a place is not moved by the inputs deleted before it.
DeleteInput_Unmoved ==
  /\ step = "inputs" /\ removed < Len(ToDelete)
  /\ LET real == ToDelete[removed + 1] IN
       inputs' = IF real <= Len(inputs) THEN RemoveAt(inputs, real) ELSE inputs
  /\ removed' = removed + 1
  /\ UNCHANGED <<cbf, step, services, dtcs, map, downloads>>

\* delete_input_params, its second loop.
DeleteInput ==
  /\ step = "inputs" /\ removed < Len(ToDelete)
  /\ LET real_idx == ToDelete[removed + 1] - removed IN inputs' = RemoveAt(inputs, real_idx)
  /\ removed' = removed + 1
  /\ UNCHANGED <<cbf, step, services, dtcs, map, downloads>>

InputsDeleted ==
  /\ step = "inputs" /\ removed = Len(ToDelete) /\ step' = "downloads"
  /\ UNCHANGED <<cbf, services, dtcs, inputs, removed, map, downloads>>

Root(group) == InOrder(group)[1]
Singles(group) == {i \in group \ {Root(group)} : Len(cbf.downloads[i].outputs) = 1}

\* Fault: of services with several outputs one is kept.
Gathered_Single(group) ==
  <<[cbf.downloads[Root(group)] EXCEPT !.outputs =
       @ \o [k \in 1..Cardinality(Singles(group)) |->
               Head(cbf.downloads[InOrder(Singles(group))[k]].outputs)]]>>

\* The first of a group takes the outputs of those that have one; the others
\* stay, before it.
Gathered(group) ==
  Kept(cbf.downloads, group \ ({Root(group)} \cup Singles(group)))
    \o <<[cbf.downloads[Root(group)] EXCEPT !.outputs =
            @ \o [k \in 1..Cardinality(Singles(group)) |->
                    Head(cbf.downloads[InOrder(Singles(group))[k]].outputs)]]>>

\* The name of a gathered service is made of two bytes and its first output.
Unnamable(group) ==
  /\ Cardinality(group) > 1
  /\ LET root == cbf.downloads[Root(group)] IN root.outputs = <<>> \/ Len(root.payload) < 2

\* decode_ecu, one payload of the map; the outputs' order and names are left out.
GatherDownloads ==
  /\ step = "downloads"
  /\ \E p \in map :
       IF Unnamable(SamePayload(p)) THEN Panic
       ELSE /\ downloads' = downloads \o Gathered(SamePayload(p))
            /\ map' = map \ {p}
            /\ UNCHANGED <<cbf, step, services, dtcs, inputs, removed>>

DownloadsGathered ==
  /\ step = "downloads" /\ map = {} /\ step' = "done"
  /\ UNCHANGED <<cbf, services, dtcs, inputs, removed, map, downloads>>

LinksNext ==
  \/ LinkServices \/ LinkDtcs \/ LinkEnvs
  \/ DeleteInput \/ InputsDeleted \/ GatherDownloads \/ DownloadsGathered

LinksSpec == LinksInit /\ [][LinksNext]_linkVars
-----------------------------------------------------------------------------
LinksTypeOK ==
  /\ step \in {"services", "dtcs", "envs", "inputs", "downloads", "done", "panicked"}
  /\ \A i \in DOMAIN services : services[i] \in 0..cbf.services - 1 \cup {Nobody}
  /\ removed \in 0..Len(cbf.inputs) /\ map \subseteq Payloads

(* Every trouble code of the pool is the variant's, with its own range of  *)
(* cross references, whatever order the pool was sorted to in between; if  *)
(* all are known, the variant has them in the pool's order and no others.  *)
DtcsAsPooled ==
  step = "envs" =>
    LET pool == cbf.dtcPool IN
      /\ \A i \in DOMAIN pool : Known(pool[i]) => Link(pool[i]) \in Range(dtcs)
      /\ (\A i \in DOMAIN pool : Known(pool[i])) => dtcs = [i \in DOMAIN pool |-> Link(pool[i])]

\* The cross references of d to environments the variant lists.
Referenced(d) ==
  {p \in DOMAIN cbf.xrefs :
     p - d.from \in 1..d.count /\ cbf.xrefs[p] \in Range(cbf.envPool) \cap 0..cbf.envs - 1}

(* A trouble code's environments are those its cross references name and   *)
(* the variant lists, each once for a reference, in the references' order, *)
(* unless the end of the range is no i32.                                  *)
EnvsAsReferenced ==
  step \in {"inputs", "downloads", "done"} =>
    \A i \in DOMAIN dtcs : ~Overlong(dtcs[i]) =>
      /\ Len(dtcs[i].envs) = Cardinality(Referenced(dtcs[i]))
      /\ \A p \in Referenced(dtcs[i]) : dtcs[i].envs[Place(Referenced(dtcs[i]), p)] = cbf.xrefs[p]

(* Exactly the inputs whose byte the payload repeats are gone, and each of *)
(* the others stands where those before it leave it.                       *)
InputsNotRepeated ==
  step \in {"downloads", "done"} =>
    LET wanted == {i \in DOMAIN cbf.inputs : ~Repeated(cbf.inputs[i])} IN
      /\ Len(inputs) = Cardinality(wanted)
      /\ \A i \in wanted : inputs[Place(wanted, i)] = cbf.inputs[i]

\* The outputs of services, with their places, and how often there is one.
Outputs(ds) == UNION {Range(ds[i].outputs) : i \in DOMAIN ds}
OutputPlaces(ds) == UNION {{i} \X DOMAIN ds[i].outputs : i \in DOMAIN ds}
Times(ds, output) ==
  Cardinality({at \in OutputPlaces(ds) : ds[at[1]].outputs[at[2]] = output})

(* Gathering loses no output and doubles none.                             *)
OutputsKept ==
  step = "done" =>
    \A output \in Outputs(downloads) \cup Outputs(cbf.downloads) :
      Times(downloads, output) = Times(cbf.downloads, output)

(* What a variant is linked to is what its file names: trouble codes, their *)
(* environments, the inputs left to ask for, and the outputs.              *)
LinksKept ==
  LinksTypeOK /\ DtcsAsPooled /\ EnvsAsReferenced /\ InputsNotRepeated /\ OutputsKept
=============================================================================

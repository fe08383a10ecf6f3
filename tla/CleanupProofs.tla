----------------------------- MODULE CleanupProofs -----------------------------
(***************************************************************************)
(* For any layers, requests, overlapping runs and number of faults: the    *)
(* types of Cleanup, that no run removes what has been protected since it  *)
(* began, that the catalog lists what has files, and that the marker of a  *)
(* database in use is fresh.                                               *)
(***************************************************************************)
EXTENDS Cleanup, TLAPS

UseType == [pc : {"idle", "touch", "mark", "report"}, layer : Layers \cup {None}]
RunType(kept) == [pc : Places, layers : SUBSET Layers, layer : Layers \cup {None},
                  spared : SUBSET kept]

\* A PUT knows its layer until it ends; a GET goes from the marker to its answer.
UseInv ==
    \A u \in Users : /\ use[u].pc = "idle" => use[u].layer = None
                     /\ use[u].pc = "report" => use[u].layer # None

\* What a run has read, and what has been protected since before it read.
RunsFit(f) ==
    \A r \in Runs :
        /\ f[r].pc = "removeLayer" => f[r].layer \in Layers
        /\ f[r].pc \in {"readLayers", "dropDatabase"} => Whole \notin f[r].spared
        /\ f[r].pc = "dropDatabase" => f[r].spared = {}
        /\ f[r].pc \in {"dropLayer", "removeLayer"} => f[r].layers \cap f[r].spared = {}

RunInv == RunsFit(run)

IInv == TypeOK /\ UseInv /\ RunInv

\* It holds at the start.
LEMMA InitInv == Init => IInv
<1> SUFFICES ASSUME Init PROVE IInv
  OBVIOUS
<1>1. unmarked \in BOOLEAN /\ recent \in BOOLEAN /\ accessed \in BOOLEAN
  BY DEF Init
<1>2. directory \in BOOLEAN /\ throttled \in BOOLEAN /\ (dirs # {} \/ marker # None => directory)
  BY DEF Init
<1>3. TypeOK
  BY <1>1, <1>2, ConstantsAssumption DEF Init, TypeOK, NoUse, NoRun, Places
<1>4. UseInv /\ RunInv
  BY DEF Init, UseInv, RunInv, RunsFit, NoUse, NoRun
<1> QED
  BY <1>3, <1>4 DEF IInv

\* A name that is no longer protected is spared by no run.
LEMMA UnspareKeeps ==
    ASSUME NEW kept, NEW f \in [Runs -> RunType(kept)], NEW names, NEW less,
           kept \ names \subseteq less
    PROVE /\ Unspare(f, names) \in [Runs -> RunType(less)]
          /\ \A r \in Runs :
               /\ Unspare(f, names)[r].pc = f[r].pc
               /\ Unspare(f, names)[r].layers = f[r].layers
               /\ Unspare(f, names)[r].layer = f[r].layer
               /\ Unspare(f, names)[r].spared = f[r].spared \ names
          /\ RunsFit(f) => RunsFit(Unspare(f, names))
<1>1. ASSUME NEW r \in Runs
      PROVE Unspare(f, names)[r] = [pc |-> f[r].pc, layers |-> f[r].layers, layer |-> f[r].layer,
                                    spared |-> f[r].spared \ names]
  BY DEF Unspare, RunType
<1>2. ASSUME NEW r \in Runs PROVE f[r].spared \ names \subseteq less
  BY DEF RunType
<1>3. ASSUME NEW r \in Runs PROVE Unspare(f, names)[r] \in RunType(less)
  <2>1. /\ f[r].pc \in Places /\ f[r].layers \in SUBSET Layers
        /\ f[r].layer \in Layers \cup {None} /\ f[r].spared \ names \in SUBSET less
    BY <1>2 DEF RunType
  <2> DEFINE pc == f[r].pc  layers == f[r].layers  layer == f[r].layer  spared == f[r].spared \ names
  <2>2. Unspare(f, names)[r] = [pc |-> pc, layers |-> layers, layer |-> layer, spared |-> spared]
    BY <1>1
  <2> HIDE DEF pc, layers, layer, spared
  <2> QED
    BY <2>1, <2>2 DEF RunType, pc, layers, layer, spared
<1>4. Unspare(f, names) \in [Runs -> RunType(less)]
  BY <1>3 DEF Unspare
<1>5. ASSUME NEW r \in Runs
      PROVE /\ Unspare(f, names)[r].pc = f[r].pc
            /\ Unspare(f, names)[r].layers = f[r].layers
            /\ Unspare(f, names)[r].layer = f[r].layer
            /\ Unspare(f, names)[r].spared = f[r].spared \ names
  <2> DEFINE u == Unspare(f, names)[r]  spared == f[r].spared \ names
  <2>1. u = [pc |-> f[r].pc, layers |-> f[r].layers, layer |-> f[r].layer, spared |-> spared]
    BY <1>1
  <2> HIDE DEF u, spared
  <2>2. u.pc = f[r].pc /\ u.layers = f[r].layers /\ u.layer = f[r].layer /\ u.spared = spared
    BY <2>1
  <2> QED
    BY <2>2 DEF u, spared
<1>6. RunsFit(f) => RunsFit(Unspare(f, names))
  <2> DEFINE g == Unspare(f, names)
  <2>1. \A r \in Runs : /\ g[r].pc = f[r].pc /\ g[r].layers = f[r].layers
                         /\ g[r].layer = f[r].layer /\ g[r].spared = f[r].spared \ names
    BY <1>5
  <2> HIDE DEF g
  <2>2. RunsFit(f) => RunsFit(g)
    BY <2>1 DEF RunsFit
  <2> QED
    BY <2>2 DEF g
<1> QED
  BY <1>4, <1>5, <1>6

\* Requests leave the runs as they are.
LEMMA RequestInv ==
    ASSUME IInv, NEW u \in Users,
           \/ \E l \in Layers : Put(u, l)
           \/ Get(u) \/ UseStep(u) \/ FailToMark(u) \/ Leave(u)
    PROVE IInv'
<1> USE ConstantsAssumption DEF IInv, TypeOK, RunsFit
<1>1. UNCHANGED <<run, marks>>
  BY DEF Put, Get, UseStep, Skip, Touch, Mark, Report, FailToMark, Leave, UseFrame, catalogVars
<1>2. RunInv'
  BY <1>1 DEF RunInv
<1>3. CASE \E l \in Layers : Put(u, l)
  BY <1>2, <1>3 DEF Put, UseFrame, catalogVars, markVars, UseInv
<1>4. CASE Get(u)
  BY <1>2, <1>4 DEF Get, UseFrame, catalogVars, markVars, storeVars, UseInv
<1>5. ASSUME Touched(u), At(u, "touch") \/ At(u, "mark")
      PROVE use' \in [Users -> UseType] /\ UseInv' /\ recent' \in BOOLEAN /\ accessed' \in BOOLEAN
  BY <1>5 DEF Touched, GoUse, NoUse, UseType, UseInv, At
<1>6. CASE Skip(u)
  <2>1. UNCHANGED <<dirs, directory, marker, throttled, unmarked, strayed, catalogVars, run, faults>>
    BY <1>6 DEF Skip, UseFrame, storeVars
  <2>2. Touched(u) /\ At(u, "touch")
    BY <1>6 DEF Skip
  <2> QED
    BY <1>2, <1>5, <2>1, <2>2 DEF catalogVars, UseType
<1>7. CASE Touch(u)
  <2>1. use' \in [Users -> UseType] /\ UseInv'
    BY <1>7 DEF Touch, GoUse, UseType, UseInv
  <2>2. /\ throttled' = TRUE
        /\ UNCHANGED <<dirs, directory, marker, markVars, strayed, catalogVars, run, faults>>
    BY <1>7 DEF Touch, UseFrame
  <2> QED
    BY <1>2, <2>1, <2>2 DEF catalogVars, markVars, UseType
<1>8. CASE Mark(u)
  <2>1. /\ directory' = TRUE /\ marker' = "fresh" /\ unmarked' = FALSE
        /\ UNCHANGED <<dirs, throttled, strayed, catalogVars, run, faults>>
    BY <1>8 DEF Mark, UseFrame
  <2>2. Touched(u) /\ At(u, "mark")
    BY <1>8 DEF Mark
  <2> QED
    BY <1>2, <1>5, <2>1, <2>2 DEF catalogVars, UseType
<1>9. CASE Report(u)
  <2>1. use[u].layer \in Layers
    BY <1>9 DEF Report, At, UseInv
  <2>2. use' \in [Users -> UseType] /\ UseInv'
    BY <1>9 DEF Report, NoUse, UseType, UseInv
  <2>3. /\ rows' = rows \cup {use[u].layer, Whole} /\ strayed' \subseteq strayed
        /\ UNCHANGED <<storeVars, marks, run, faults, markVars>>
    BY <1>9 DEF Report
  <2> QED
    BY <1>2, <2>1, <2>2, <2>3 DEF storeVars, markVars, UseType, Names
<1>10. CASE FailToMark(u)
  <2>1. /\ unmarked' = TRUE /\ faults' \in 0..MaxFaults
        /\ UNCHANGED <<dirs, directory, marker, throttled, strayed, catalogVars, run>>
    BY <1>10 DEF FailToMark, Fault, storeVars
  <2>2. Touched(u) /\ At(u, "mark")
    BY <1>10 DEF FailToMark
  <2> QED
    BY <1>2, <1>5, <2>1, <2>2 DEF catalogVars, UseType
<1>11. CASE Leave(u)
  <2>1. use' \in [Users -> UseType] /\ UseInv' /\ strayed' \subseteq Layers
    BY <1>11 DEF Leave, NoUse, UseType, UseInv
  <2>2. unmarked' \in BOOLEAN
    BY <1>11 DEF Leave, At
  <2>3. faults' \in 0..MaxFaults /\ UNCHANGED <<storeVars, catalogVars, run, recent, accessed>>
    BY <1>11 DEF Leave, Fault
  <2> QED
    BY <1>2, <2>1, <2>2, <2>3 DEF storeVars, catalogVars, UseType
<1> QED
  BY <1>3, <1>4, <1>6, <1>7, <1>8, <1>9, <1>10, <1>11 DEF UseStep

\* A name that is protected or released is spared by no run that has begun.
LEMMA WorldInv ==
    ASSUME IInv, CachedGet \/ (\E n \in Names : Protect(n)) \/ Expire \/ Age \/ Restart
    PROVE IInv'
<1> USE ConstantsAssumption DEF IInv, TypeOK, RunsFit
<1>1. CASE CachedGet
  BY <1>1 DEF CachedGet, storeVars, UseFrame, catalogVars, RunInv, UseInv
<1>2. CASE Expire
  <2>1. /\ throttled' = FALSE /\ unmarked' = FALSE /\ recent' \in BOOLEAN
        /\ UNCHANGED <<dirs, directory, marker, accessed, use, strayed, catalogVars, run, faults>>
    BY <1>2 DEF Expire, Unthrottle, UseFrame
  <2> QED
    BY <2>1 DEF catalogVars, RunInv, UseInv
<1>3. CASE Age
  <2>1. /\ marker = "fresh" /\ marker' = "old" /\ recent' = FALSE /\ accessed' = FALSE
        /\ UNCHANGED <<dirs, directory, throttled, unmarked, use, strayed, catalogVars, run, faults>>
    BY <1>3 DEF Age, UseFrame
  <2>2. directory
    BY <2>1, Zenon
  <2> QED
    BY <2>1, <2>2 DEF catalogVars, RunInv, UseInv
<1>4. ASSUME NEW n \in Names, Protect(n) PROVE IInv'
  <2>1. /\ marks' = IF n \in marks THEN marks \ {n} ELSE marks \cup {n}
        /\ marks' \subseteq rows /\ run' = Unspare(run, {n})
        /\ UNCHANGED <<storeVars, rows, use, faults, strayed, markVars>>
    BY <1>4 DEF Protect
  <2>2. run \in [Runs -> RunType(marks)] /\ marks \ {n} \subseteq marks'
    BY <2>1 DEF RunType
  <2>3. run' \in [Runs -> RunType(marks')] /\ RunInv'
    BY <2>1, <2>2, UnspareKeeps DEF RunInv
  <2> QED
    BY <2>1, <2>3 DEF RunType, storeVars, markVars, UseInv
<1>5. CASE Restart
  <2>1. /\ throttled' = FALSE /\ faults' \in 0..MaxFaults
        /\ UNCHANGED <<dirs, directory, marker, catalogVars, accessed>>
    BY <1>5 DEF Restart, Fault
  <2>2. unmarked' \in BOOLEAN /\ recent' \in BOOLEAN
    BY <1>5 DEF Restart
  <2>3. use' \in [Users -> UseType] /\ UseInv' /\ run' \in [Runs -> RunType(marks)] /\ RunInv'
    BY <1>5 DEF Restart, NoRun, NoUse, UseType, RunType, Places, UseInv, RunInv
  <2>4. PutsUnderWay \subseteq Layers /\ \A r \in Runs : Unfinished(r) \subseteq Layers
    BY DEF PutsUnderWay, Unfinished, RunInv
  <2>5. strayed' \subseteq Layers
    BY <1>5, <2>4 DEF Restart
  <2> QED
    BY <2>1, <2>2, <2>3, <2>5 DEF catalogVars, UseType, RunType
<1> QED
  BY <1>1, <1>2, <1>3, <1>4, <1>5

\* The place a run goes to next keeps the types and what the run has read.
LEMMA StepKeeps ==
    ASSUME IInv, NEW r \in Runs, NEW next \in RunType(marks),
           next.pc = "removeLayer" => next.layer \in Layers,
           next.pc \in {"readLayers", "dropDatabase"} => Whole \notin next.spared,
           next.pc = "dropDatabase" => next.spared = {},
           next.pc \in {"dropLayer", "removeLayer"} => next.layers \cap next.spared = {}
    PROVE [run EXCEPT ![r] = next] \in [Runs -> RunType(marks)] /\ RunsFit([run EXCEPT ![r] = next])
<1>1. run \in [Runs -> RunType(marks)]
  BY DEF IInv, TypeOK, RunType
<1> QED
  BY <1>1 DEF IInv, RunInv, RunsFit

\* A run that ends, or goes on with other layers.
LEMMA EndKeeps ==
    ASSUME IInv, NEW r \in Runs
    PROVE Ended(r) \in [Runs -> RunType(marks)] /\ RunsFit(Ended(r))
<1>1. NoRun \in RunType(marks) /\ NoRun.pc = "idle"
  BY DEF NoRun, RunType, Places
<1> QED
  BY <1>1, StepKeeps DEF Ended

\* A run that goes to another place with other layers.
LEMMA GoKeeps ==
    ASSUME IInv, NEW r \in Runs,
           NEW pc \in Places \ {"removeLayer"}, NEW layers \in SUBSET Layers,
           pc \in {"readLayers", "dropDatabase"} => Whole \notin run[r].spared,
           pc = "dropDatabase" => run[r].spared = {},
           pc = "dropLayer" => layers \cap run[r].spared = {}
    PROVE /\ Going(r, pc, layers) \in [Runs -> RunType(marks)]
          /\ RunsFit(Going(r, pc, layers))
<1> DEFINE next == [run[r] EXCEPT !.pc = pc, !.layers = layers, !.layer = None]
<1>1. run \in [Runs -> RunType(marks)]
  BY DEF IInv, TypeOK, RunType
<1>2. next \in RunType(marks) /\ next.pc = pc /\ next.layers = layers /\ next.spared = run[r].spared
  BY <1>1 DEF RunType
<1>3. Going(r, pc, layers) = [run EXCEPT ![r] = next]
  BY <1>1 DEF Going, RunType
<1> HIDE DEF next
<1>4. /\ next.pc = "removeLayer" => next.layer \in Layers
      /\ next.pc \in {"readLayers", "dropDatabase"} => Whole \notin next.spared
      /\ next.pc = "dropDatabase" => next.spared = {}
      /\ next.pc \in {"dropLayer", "removeLayer"} => next.layers \cap next.spared = {}
  BY <1>2
<1>5. /\ [run EXCEPT ![r] = next] \in [Runs -> RunType(marks)]
      /\ RunsFit([run EXCEPT ![r] = next])
  BY <1>2, <1>4, StepKeeps
<1> QED
  BY <1>3, <1>5

\* Begin, List, ReadDatabase and ReadLayers only read.
LEMMA ReadInv ==
    ASSUME IInv, NEW r \in Runs, Begin(r) \/ List(r) \/ ReadDatabase(r) \/ ReadLayers(r)
    PROVE IInv'
<1> USE ConstantsAssumption
<1>1. /\ UNCHANGED <<dirs, directory, marker, throttled, rows, marks, strayed, unmarked, recent,
                     accessed, use, faults>>
  BY DEF Begin, List, ReadDatabase, ReadLayers, storeVars, catalogVars, markVars, RunFrame
<1>2. run[r] \in RunType(marks) /\ NoRun \in RunType(marks)
  BY DEF IInv, TypeOK, RunType, NoRun, Places
<1>3. marks \subseteq Names
  BY DEF IInv, TypeOK
<1>4. run' \in [Runs -> RunType(marks')] /\ RunInv'
  <2>1. CASE Begin(r)
    <3> DEFINE next == [NoRun EXCEPT !.pc = "listing", !.spared = marks]
    <3>1. run' = [run EXCEPT ![r] = next]
      BY <2>1 DEF Begin
    <3>2. next \in RunType(marks) /\ next.pc = "listing"
      BY DEF NoRun, RunType, Places
    <3> HIDE DEF next
    <3> QED
      BY <1>1, <3>1, <3>2, StepKeeps DEF RunInv
  <2>2. CASE List(r)
    BY <1>1, <2>2, EndKeeps, GoKeeps DEF List, Places, RunInv
  <2>3. CASE ReadDatabase(r)
    <3>1. run[r].spared \subseteq marks
      BY <1>2 DEF RunType
    <3> QED
      BY <1>1, <2>3, <3>1, GoKeeps DEF ReadDatabase, Places, RunInv
  <2>4. CASE ReadLayers(r)
    <3>1. run[r].spared \subseteq marks /\ marks \subseteq rows
      BY <1>2 DEF RunType, IInv, TypeOK
    <3>2. CASE LayersOnly(r)
      <4>1. Revocable(r) \in SUBSET Layers /\ Revocable(r) \cap run[r].spared = {}
        BY <3>1 DEF Revocable
      <4> QED
        BY <1>1, <2>4, <3>2, <4>1, EndKeeps, GoKeeps DEF ReadLayers, Places, RunInv
    <3>3. CASE ~LayersOnly(r)
      <4>1. RunAt(r, "readLayers") /\ rows \cap marks \cap Layers = {}
        BY <2>4, <3>3 DEF ReadLayers, LayersOnly, RunAt
      <4>2. Whole \notin run[r].spared
        BY <4>1 DEF RunAt, IInv, RunInv, RunsFit
      <4>3. run[r].spared = {}
        BY <1>3, <3>1, <4>1, <4>2 DEF Names, IInv, TypeOK
      <4> QED
        BY <1>1, <2>4, <3>3, <4>2, <4>3, GoKeeps DEF ReadLayers, Places, RunInv
    <3> QED
      BY <3>2, <3>3
  <2> QED
    BY <2>1, <2>2, <2>3, <2>4
<1>5. UseInv'
  BY <1>1 DEF IInv, UseInv
<1>6. TypeOK'
  BY <1>1, <1>4 DEF IInv, TypeOK, RunType
<1> QED
  BY <1>4, <1>5, <1>6 DEF IInv

\* The removals keep it, and an error that cuts one off.
LEMMA RemoveInv ==
    ASSUME IInv, NEW r \in Runs,
           \/ \E l \in Layers : DropLayer(r, l)
           \/ RemoveLayer(r) \/ DropDatabase(r) \/ Forget(r) \/ RemoveDatabase(r)
           \/ FailToDrop(r) \/ Abort(r)
    PROVE IInv'
<1> USE ConstantsAssumption
<1>1. run \in [Runs -> RunType(marks)] /\ run[r] \in RunType(marks)
  BY DEF IInv, TypeOK, RunType
<1>2. ASSUME NEW l \in Layers, RunAt(r, "dropLayer") \/ RunAt(r, "removeLayer")
      PROVE Proceeding(r, l) \in [Runs -> RunType(marks)] /\ RunsFit(Proceeding(r, l))
  <2>1. run[r].layers \in SUBSET Layers /\ run[r].layers \cap run[r].spared = {}
    BY <1>1, <1>2 DEF RunType, RunAt, IInv, RunInv, RunsFit
  <2> QED
    BY <2>1, EndKeeps, GoKeeps DEF Proceeding, Places
<1>3. ASSUME NEW l \in Layers, DropLayer(r, l) PROVE IInv'
  <2>1. run' \in [Runs -> RunType(marks')] /\ RunInv'
    <3>1. CASE l \in dirs
      <4> DEFINE next == [run[r] EXCEPT !.pc = "removeLayer", !.layer = l]
      <4>1. run' = [run EXCEPT ![r] = next] /\ marks' = marks
        BY <1>1, <1>3, <3>1 DEF DropLayer, catalogVars, RunType
      <4>2. run[r].layers \cap run[r].spared = {}
        BY <1>3 DEF DropLayer, RunAt, IInv, RunInv, RunsFit
      <4>3. /\ next \in RunType(marks) /\ next.pc = "removeLayer" /\ next.layer = l
            /\ next.layers \cap next.spared = {}
        BY <1>1, <4>2 DEF RunType, Places
      <4> HIDE DEF next
      <4> QED
        BY <4>1, <4>3, StepKeeps DEF RunInv
    <3>2. CASE l \notin dirs
      BY <1>2, <1>3, <3>2 DEF DropLayer, catalogVars, RunInv
    <3> QED
      BY <3>1, <3>2
  <2>2. /\ dirs' \subseteq dirs /\ strayed' \subseteq Layers
        /\ UNCHANGED <<directory, marker, throttled, catalogVars, markVars, use, faults>>
    BY <1>3 DEF DropLayer, RunFrame, IInv, TypeOK
  <2> QED
    BY <2>1, <2>2 DEF catalogVars, markVars, IInv, TypeOK, UseInv, RunType
<1>4. ASSUME NEW names \in SUBSET Names, NEW next \in [Runs -> RunType(marks)],
             RemoveRows(names, next), RunsFit(next), UNCHANGED <<storeVars, markVars, use, faults>>
      PROVE IInv'
  <2>1. /\ run' = Unspare(next, names) /\ rows' = rows \ names /\ marks' = marks \ names
        /\ strayed' \subseteq strayed
    BY <1>4 DEF RemoveRows, MarksWithout
  <2>2. run' \in [Runs -> RunType(marks')] /\ RunInv'
    BY <1>4, <2>1, UnspareKeeps DEF RunInv
  <2>3. UNCHANGED <<dirs, directory, marker, throttled, unmarked, recent, accessed, use, faults>>
    BY <1>4 DEF storeVars, markVars
  <2> QED
    BY <2>1, <2>2, <2>3 DEF IInv, TypeOK, UseInv, RunType
<1>5. CASE RemoveLayer(r)
  <2>1. run[r].layer \in Layers /\ RunAt(r, "removeLayer")
    BY <1>5 DEF RemoveLayer, RunAt, IInv, RunInv, RunsFit
  <2>2. {run[r].layer} \in SUBSET Names
    BY <2>1 DEF Names
  <2> QED
    BY <1>2, <1>4, <1>5, <2>1, <2>2 DEF RemoveLayer, RunFrame
<1>6. CASE RemoveDatabase(r)
  BY <1>4, <1>6, EndKeeps DEF RemoveDatabase, RowsOfDatabase, RunFrame
<1>7. CASE DropDatabase(r)
  <2>1. run' \in [Runs -> RunType(marks')] /\ RunInv'
    BY <1>7, EndKeeps, GoKeeps DEF DropDatabase, Places, RunInv, catalogVars
  <2>2. CASE directory
    <3>1. /\ dirs' = {} /\ directory' = FALSE /\ marker' = None
          /\ recent' = FALSE /\ unmarked' = throttled /\ accessed' = FALSE
          /\ UNCHANGED <<throttled, catalogVars, use, faults>>
      BY <1>7, <2>2 DEF DropDatabase, RunFrame
    <3>2. strayed' \subseteq Layers
      BY <1>7, <2>2 DEF DropDatabase, PutsUnderWay, IInv, TypeOK
    <3> QED
      BY <2>1, <3>1, <3>2 DEF catalogVars, IInv, TypeOK, UseInv, RunType
  <2>3. CASE ~directory
    <3>1. UNCHANGED <<dirs, directory, marker, strayed, markVars, throttled, catalogVars, use, faults>>
      BY <1>7, <2>3 DEF DropDatabase, RunFrame
    <3> QED
      BY <2>1, <3>1 DEF catalogVars, markVars, IInv, TypeOK, UseInv, RunType
  <2> QED
    BY <2>2, <2>3
<1>8. CASE Forget(r)
  <2>1. run' \in [Runs -> RunType(marks')] /\ RunInv'
    BY <1>8, GoKeeps DEF Forget, Places, RunInv, catalogVars
  <2>2. /\ throttled' = FALSE
        /\ unmarked' = FALSE /\ recent' \in BOOLEAN
        /\ UNCHANGED <<dirs, directory, marker, catalogVars, strayed, accessed, use, faults>>
    BY <1>8 DEF Forget, Forgotten, RunFrame
  <2> QED
    BY <2>1, <2>2 DEF catalogVars, IInv, TypeOK, UseInv, RunType
<1>9. CASE Abort(r)
  <2>1. run' \in [Runs -> RunType(marks')] /\ RunInv'
    BY <1>9, EndKeeps DEF Abort, RunInv, catalogVars
  <2>2. strayed' \subseteq Layers
    BY <1>9 DEF Abort, Unfinished, IInv, TypeOK, RunInv, RunsFit
  <2>3. /\ faults' \in 0..MaxFaults
        /\ UNCHANGED <<storeVars, catalogVars, use, markVars>>
    BY <1>9 DEF Abort, Fault, IInv, TypeOK
  <2> QED
    BY <2>1, <2>2, <2>3 DEF storeVars, catalogVars, markVars, IInv, TypeOK, UseInv, RunType
<1>10. CASE FailToDrop(r)
  <2>1. run' \in [Runs -> RunType(marks')] /\ RunInv'
    BY <1>10, EndKeeps DEF FailToDrop, RunInv, catalogVars
  <2>2. dirs' \subseteq dirs /\ strayed' \subseteq Layers
    BY <1>10 DEF FailToDrop, PutsUnderWay, IInv, TypeOK
  <2>3. /\ directory /\ marker' \in {None, marker}
        /\ unmarked' \in BOOLEAN /\ recent' \in BOOLEAN
    BY <1>10 DEF FailToDrop, IInv, TypeOK
  <2>4. faults' \in 0..MaxFaults /\ UNCHANGED <<directory, throttled, catalogVars, use, accessed>>
    BY <1>10 DEF FailToDrop, Fault, IInv, TypeOK
  <2> QED
    BY <2>1, <2>2, <2>3, <2>4 DEF catalogVars, IInv, TypeOK, UseInv, RunType
<1> QED
  BY <1>3, <1>5, <1>6, <1>7, <1>8, <1>9, <1>10

\* Every step keeps the invariant.
LEMMA NextInv == IInv /\ [Next]_vars => IInv'
<1>1. IInv /\ UNCHANGED vars => IInv'
  BY DEF vars, storeVars, catalogVars, markVars, IInv, TypeOK, UseInv, RunInv, RunsFit
<1>2. ASSUME IInv, Next PROVE IInv'
  <2>1. ASSUME NEW u \in Users,
               \/ \E l \in Layers : Put(u, l)
               \/ Get(u) \/ UseStep(u) \/ FailToMark(u) \/ Leave(u)
        PROVE IInv'
    BY <1>2, <2>1, RequestInv
  <2>2. CASE CachedGet \/ (\E n \in Names : Protect(n)) \/ Expire \/ Age \/ Restart
    BY <1>2, <2>2, WorldInv
  <2>3. ASSUME NEW r \in Runs, Begin(r) \/ RunStep(r) \/ FailToDrop(r) \/ Abort(r) PROVE IInv'
    BY <1>2, <2>3, ReadInv, RemoveInv DEF RunStep
  <2> QED
    BY <1>2, <2>1, <2>2, <2>3 DEF Next
<1> QED
  BY <1>1, <1>2

\* The invariant of the types and of what the runs have read.
LEMMA Invariance == Spec => []IInv
BY InitInv, NextInv, PTL DEF Spec

\* The variables of Cleanup keep their types.
THEOREM TypeCorrect == Spec => []TypeOK
<1>1. IInv => TypeOK
  BY DEF IInv
<1> QED
  BY <1>1, Invariance, PTL

\* A run that goes on to remove a layer has found it among those it has read.
LEMMA RemovesWhatItRead ==
    ASSUME IInv, [Next]_vars, NEW r \in Runs,
           RunAt(r, "dropLayer"), run'[r].pc = "removeLayer"
    PROVE run'[r].layer \in run[r].layers
<1>1. run \in [Runs -> RunType(marks)]
  BY DEF IInv, TypeOK, RunType
<1>2. run'[r].pc # run[r].pc
  BY DEF RunAt
<1>3. ASSUME NEW names, NEW f \in [Runs -> RunType(marks)], run' = Unspare(f, names)
      PROVE f[r].pc = "removeLayer"
  BY <1>3, UnspareKeeps
<1>4. ~UNCHANGED run
  BY <1>2
<1>5. ASSUME NEW u \in Users,
             \/ \E l \in Layers : Put(u, l)
             \/ Get(u) \/ UseStep(u) \/ FailToMark(u) \/ Leave(u)
      PROVE UNCHANGED run
  BY <1>5 DEF Put, Get, UseStep, Skip, Touch, Mark, Report, FailToMark, Leave, UseFrame
<1>6. CachedGet \/ Expire \/ Age => UNCHANGED run
  BY DEF CachedGet, Expire, Age, UseFrame
<1>7. ASSUME NEW n \in Names, Protect(n) PROVE FALSE
  BY <1>1, <1>3, <1>7 DEF Protect, RunAt
<1>8. ~Restart
  BY DEF Restart, NoRun
<1>9. ASSUME NEW s \in Runs, Begin(s) \/ List(s) \/ ReadDatabase(s) \/ ReadLayers(s) PROVE FALSE
  <2>1. s # r
    BY <1>9 DEF Begin, List, ReadDatabase, ReadLayers, RunAt
  <2> QED
    BY <1>1, <1>2, <1>9, <2>1 DEF Begin, List, ReadDatabase, ReadLayers, Ended, Going
<1>10. ASSUME NEW s \in Runs, NEW l \in Layers, DropLayer(s, l)
       PROVE run'[r].layer \in run[r].layers
  <2>1. CASE s # r
    BY <1>1, <1>2, <1>10, <2>1 DEF DropLayer, Proceeding, Ended, Going
  <2>2. CASE s = r /\ l \in dirs
    BY <1>1, <1>10, <2>2 DEF DropLayer, RunType
  <2>3. CASE s = r /\ l \notin dirs
    <3>1. run' = Ended(r) \/ run' = Going(r, "dropLayer", run[r].layers \ {l})
      BY <1>10, <2>3 DEF DropLayer, Proceeding
    <3>2. run' = Ended(r) => run'[r].pc = "idle"
      BY <1>1 DEF Ended, NoRun
    <3>3. run' = Going(r, "dropLayer", run[r].layers \ {l}) => run'[r].pc = "dropLayer"
      <4> DEFINE next == [run[r] EXCEPT !.pc = "dropLayer", !.layers = run[r].layers \ {l}, !.layer = None]
      <4>1. Going(r, "dropLayer", run[r].layers \ {l})[r] = next /\ next.pc = "dropLayer"
        BY <1>1 DEF Going, RunType
      <4> QED
        BY <4>1
    <3> QED
      BY <3>1, <3>2, <3>3
  <2> QED
    BY <2>1, <2>2, <2>3
<1>11. ASSUME NEW s \in Runs, RemoveLayer(s) PROVE FALSE
  <2>1. s # r
    BY <1>11 DEF RemoveLayer, RunAt
  <2>2. run[s].layer \in Layers /\ RunAt(s, "removeLayer")
    BY <1>11 DEF RemoveLayer, RunAt, IInv, RunInv, RunsFit
  <2>3. Proceeding(s, run[s].layer) \in [Runs -> RunType(marks)]
    <3>1. run[s].layers \in SUBSET Layers /\ run[s].layers \cap run[s].spared = {}
      BY <1>1, <2>2 DEF RunType, RunAt, IInv, RunInv, RunsFit
    <3> QED
      BY <3>1, EndKeeps, GoKeeps DEF Proceeding, Places
  <2>4. Proceeding(s, run[s].layer)[r].pc = "removeLayer"
    BY <1>3, <1>11, <2>3 DEF RemoveLayer, RemoveRows
  <2> QED
    BY <1>1, <2>1, <2>4 DEF Proceeding, Ended, Going, RunAt
<1>12. ASSUME NEW s \in Runs, RemoveDatabase(s) PROVE FALSE
  <2>1. s # r
    BY <1>12 DEF RemoveDatabase, RunAt
  <2>2. Ended(s)[r].pc = "removeLayer"
    BY <1>3, <1>12, EndKeeps DEF RemoveDatabase, RemoveRows
  <2> QED
    BY <1>1, <2>1, <2>2 DEF Ended, RunAt
<1>13. ASSUME NEW s \in Runs, DropDatabase(s) \/ Forget(s) PROVE FALSE
  <2>1. s # r
    BY <1>13 DEF DropDatabase, Forget, RunAt
  <2> QED
    BY <1>1, <1>2, <1>13, <2>1 DEF DropDatabase, Forget, Ended, Going
<1>14. ASSUME NEW s \in Runs, FailToDrop(s) \/ Abort(s) PROVE FALSE
  BY <1>1, <1>2, <1>14 DEF FailToDrop, Abort, Ended, NoRun
<1> QED
  BY <1>4, <1>5, <1>6, <1>7, <1>8, <1>9, <1>10, <1>11, <1>12, <1>13, <1>14
  DEF Next, RunStep, vars

\* README.md:213, with any number of overlapping runs, changes of the marks and
\* failures: what has been protected since before a run began outlives the run.
THEOREM ProtectedSpared == Spec => ProtectedKept
<1>1. IInv /\ [Next]_vars =>
        [\A r \in Runs : ~RunAt(r, "idle") =>
           /\ \A l \in Layers : RunAt(r, "dropLayer") /\ run'[r].pc = "removeLayer" /\ run'[r].layer = l
                   => l \notin run[r].spared
           /\ RunAt(r, "dropDatabase") /\ run'[r].pc # "dropDatabase" => run[r].spared = {}]_vars
  <2> SUFFICES ASSUME IInv, [Next]_vars, NEW r \in Runs
               PROVE /\ RunAt(r, "dropLayer") /\ run'[r].pc = "removeLayer"
                           => run'[r].layer \notin run[r].spared
                     /\ RunAt(r, "dropDatabase") => run[r].spared = {}
    OBVIOUS
  <2>1. RunAt(r, "dropLayer") => run[r].layers \cap run[r].spared = {}
    BY DEF RunAt, IInv, RunInv, RunsFit
  <2>2. RunAt(r, "dropDatabase") => run[r].spared = {}
    BY DEF RunAt, IInv, RunInv, RunsFit
  <2> QED
    BY <2>1, <2>2, RemovesWhatItRead
<1> QED
  BY <1>1, Invariance, PTL DEF Spec, ProtectedKept

-----------------------------------------------------------------------------
(* Rows and files.                                                         *)

\* A layer that has not strayed has files while a PUT of it is under way, has
\* none while its row is about to go, and otherwise has a row when it has files.
RowsFit(l) ==
    l \notin strayed =>
        /\ l \in PutsUnderWay => l \in dirs
        /\ RowPending(l) => l \notin dirs
        /\ ~RowPending(l) /\ l \notin PutsUnderWay => (l \in rows <=> l \in dirs)

RowsInv == \A l \in Layers : RowsFit(l)

\* At the start there is nothing.
LEMMA InitRows == Init => RowsInv
BY DEF Init, RowsInv, RowsFit, NoUse, NoRun, PutsUnderWay, RowPending

\* What a request says of a layer.
LEMMA UnderWay == \A l \in Layers : l \in PutsUnderWay <=> \E u \in Users : use[u].layer = l
BY ConstantsAssumption DEF PutsUnderWay

\* A PUT makes files before its row, and owns the layer until both are there.
LEMMA RequestRows ==
    ASSUME IInv, RowsInv, NEW u \in Users,
           \/ \E l \in Layers : Put(u, l)
           \/ Get(u) \/ UseStep(u) \/ FailToMark(u) \/ Leave(u)
    PROVE RowsInv'
<1> USE ConstantsAssumption
<1>1. UNCHANGED run
  BY DEF Put, Get, UseStep, Skip, Touch, Mark, Report, FailToMark, Leave, UseFrame
<1>2. \A k \in Layers : RowPending(k)' = RowPending(k)
  BY <1>1 DEF RowPending
<1>3. use \in [Users -> UseType]
  BY DEF IInv, TypeOK, UseType
<1>4. ASSUME NEW l \in Layers, Put(u, l) PROVE RowsInv'
  <2>1. use[u].layer = None
    BY <1>4 DEF Put, At, IInv, UseInv
  <2>2. PutsUnderWay' = PutsUnderWay \cup {l}
    BY <1>3, <1>4, <2>1 DEF Put, PutsUnderWay, UseType
  <2>3. /\ dirs' = dirs \cup {l} /\ rows' = rows
        /\ strayed' = strayed \cup (IF RowPending(l) THEN {l} ELSE {})
    BY <1>4 DEF Put, UseFrame, catalogVars
  <2> QED
    BY <1>2, <2>2, <2>3 DEF RowsInv, RowsFit
<1>5. ASSUME UNCHANGED <<dirs, rows>>, strayed \subseteq strayed',
             \A k \in Layers : k \notin strayed' => (k \in PutsUnderWay' <=> k \in PutsUnderWay)
      PROVE RowsInv'
  BY <1>2, <1>5 DEF RowsInv, RowsFit
<1>6. CASE Get(u) \/ Touch(u) \/ Skip(u) \/ Mark(u) \/ FailToMark(u)
  <2>1. UNCHANGED <<dirs, rows, strayed>>
    BY <1>6 DEF Get, Touch, Skip, Mark, FailToMark, UseFrame, storeVars, catalogVars
  <2>2. \A v \in Users : use'[v].layer = use[v].layer
    BY <1>3, <1>6
    DEF Get, Touch, Skip, Mark, FailToMark, Touched, GoUse, NoUse, At, UseType, IInv, UseInv
  <2>3. PutsUnderWay' = PutsUnderWay
    BY <2>2 DEF PutsUnderWay
  <2> QED
    BY <1>5, <2>1, <2>3
<1>7. CASE Leave(u)
  <2>1. /\ UNCHANGED <<dirs, rows>> /\ use' = [use EXCEPT ![u] = NoUse]
        /\ strayed' = strayed \cup ({use[u].layer} \ {None})
    BY <1>7 DEF Leave, storeVars, catalogVars
  <2>2. ASSUME NEW k \in Layers, k \notin strayed'
        PROVE (\E v \in Users : use'[v].layer = k) <=> (\E v \in Users : use[v].layer = k)
    BY <1>3, <2>1, <2>2 DEF NoUse
  <2>3. \A k \in Layers : k \in PutsUnderWay' <=> \E v \in Users : use'[v].layer = k
    BY DEF PutsUnderWay
  <2> QED
    BY <1>5, <2>1, <2>2, <2>3, UnderWay
<1>8. CASE Report(u)
  <2>1. /\ rows' = rows \cup {use[u].layer, Whole} /\ UNCHANGED dirs
        /\ use' = [use EXCEPT ![u] = NoUse]
        /\ strayed' = strayed \ {k \in dirs : k = use[u].layer /\ ~RowPending(k)}
    BY <1>8 DEF Report, storeVars
  <2>2. use[u].layer \in Layers
    BY <1>3, <1>8 DEF Report, At, IInv, UseInv, UseType
  <2>3. \A k \in Layers : k \in PutsUnderWay' <=> \E v \in Users : use'[v].layer = k
    BY DEF PutsUnderWay
  <2>4. ASSUME NEW k \in Layers PROVE RowsFit(k)'
    <3>1. CASE k = use[u].layer
      <4>1. k \in PutsUnderWay /\ k \in rows'
        BY <2>1, <3>1, UnderWay
      <4> QED
        BY <1>2, <2>1, <3>1, <4>1 DEF RowsInv, RowsFit
    <3>2. CASE k # use[u].layer
      <4>1. k \in PutsUnderWay' <=> k \in PutsUnderWay
        BY <1>3, <2>1, <2>3, <3>2, UnderWay DEF NoUse
      <4>2. (k \in rows' <=> k \in rows) /\ (k \in strayed' <=> k \in strayed)
        BY <2>1, <3>2
      <4> QED
        BY <1>2, <2>1, <4>1, <4>2 DEF RowsInv, RowsFit
    <3> QED
      BY <3>1, <3>2
  <2> QED
    BY <2>4 DEF RowsInv
<1> QED
  BY <1>4, <1>6, <1>7, <1>8 DEF UseStep

\* Time, marks and a restart: what a restart cuts off has strayed.
LEMMA WorldRows ==
    ASSUME IInv, RowsInv, CachedGet \/ (\E n \in Names : Protect(n)) \/ Expire \/ Age \/ Restart
    PROVE RowsInv'
<1>1. CASE CachedGet \/ Expire \/ Age
  BY <1>1 DEF CachedGet, Expire, Age, storeVars, UseFrame, catalogVars, RowsInv, RowsFit, RowPending,
     PutsUnderWay
<1>2. ASSUME NEW n \in Names, Protect(n) PROVE RowsInv'
  <2>1. UNCHANGED <<dirs, rows, use, strayed>> /\ run' = Unspare(run, {n})
    BY <1>2 DEF Protect, storeVars
  <2>2. run \in [Runs -> RunType(marks)]
    BY DEF IInv, TypeOK, RunType
  <2>3. \A r \in Runs : run'[r].pc = run[r].pc /\ run'[r].layer = run[r].layer
    BY <2>1, <2>2, UnspareKeeps
  <2>4. \A k \in Layers : RowPending(k)' = RowPending(k)
    BY <2>3 DEF RowPending
  <2> QED
    BY <2>1, <2>4 DEF RowsInv, RowsFit, PutsUnderWay
<1>3. CASE Restart
  <2>1. /\ UNCHANGED <<dirs, rows>> /\ PutsUnderWay' = {}
        /\ strayed' = strayed \cup PutsUnderWay \cup UNION {Unfinished(r) : r \in Runs}
    BY <1>3 DEF Restart, catalogVars, PutsUnderWay, NoUse
  <2>2. \A k \in Layers : ~RowPending(k)'
    BY <1>3 DEF Restart, RowPending, NoRun
  <2>3. \A k \in Layers : RowPending(k) => k \in strayed'
    BY <2>1 DEF RowPending, Unfinished
  <2> QED
    BY <2>1, <2>2, <2>3 DEF RowsInv, RowsFit
<1> QED
  BY <1>1, <1>2, <1>3

\* What run r, at a place of its own, still has to remove.
PendingBy(at, l) == \/ at.pc = "removeLayer" /\ l = at.layer
                    \/ at.pc \in {"forget", "removeDatabase"}

\* A step of one run leaves the places of the others alone.
OnlyRun(r) == \A s \in Runs \ {r} : run'[s].pc = run[s].pc /\ run'[s].layer = run[s].layer

\* What a run's step means for the rows that are about to go.
LEMMA PendingOf ==
    ASSUME NEW r \in Runs, OnlyRun(r), NEW l \in Layers
    PROVE /\ PendingBy(run'[r], l) => RowPending(l)'
          /\ PendingBy(run[r], l) => RowPending(l)
          /\ ~PendingBy(run[r], l) /\ RowPending(l) => RowPending(l)'
          /\ ~PendingBy(run'[r], l) /\ RowPending(l)' => RowPending(l)
BY DEF OnlyRun, RowPending, PendingBy

\* Which step of a run leaves which places alone, and where it goes.
LEMMA Moves ==
    ASSUME IInv, NEW r \in Runs
    PROVE /\ \A pc \in Places, layers \in SUBSET Layers :
               run' = Going(r, pc, layers) => OnlyRun(r) /\ run'[r].pc = pc
          /\ run' = Ended(r) => OnlyRun(r) /\ run'[r].pc = "idle"
<1>1. run \in [Runs -> RunType(marks)]
  BY DEF IInv, TypeOK, RunType
<1>2. ASSUME NEW pc \in Places, NEW layers \in SUBSET Layers, run' = Going(r, pc, layers)
      PROVE OnlyRun(r) /\ run'[r].pc = pc
  <2> DEFINE next == [run[r] EXCEPT !.pc = pc, !.layers = layers, !.layer = None]
  <2>1. run' = [run EXCEPT ![r] = next] /\ next.pc = pc
    BY <1>1, <1>2 DEF Going, RunType
  <2> HIDE DEF next
  <2> QED
    BY <1>1, <2>1 DEF OnlyRun
<1>3. run' = Ended(r) => OnlyRun(r) /\ run'[r].pc = "idle"
  BY <1>1 DEF Ended, NoRun, OnlyRun
<1> QED
  BY <1>2, <1>3

\* After a layer the run turns to the next one or ends.
LEMMA ProceedKeeps ==
    ASSUME IInv, NEW r \in Runs, NEW l \in Layers, run[r].pc \in {"dropLayer", "removeLayer"}
    PROVE /\ Proceeding(r, l) \in [Runs -> RunType(marks)]
          /\ Proceeding(r, l)[r].pc \in {"idle", "dropLayer"}
          /\ \A s \in Runs \ {r} : Proceeding(r, l)[s] = run[s]
<1> DEFINE next == Proceeding(r, l)
<1>1. run \in [Runs -> RunType(marks)]
  BY DEF IInv, TypeOK, RunType
<1>2. run[r].layers \in SUBSET Layers /\ run[r].layers \cap run[r].spared = {}
  BY <1>1 DEF RunType, IInv, RunInv, RunsFit
<1>3. CASE run[r].layers = {l}
  BY <1>1, <1>3, EndKeeps DEF Proceeding, Ended, NoRun
<1>4. CASE run[r].layers # {l}
  <2> DEFINE at == [run[r] EXCEPT !.pc = "dropLayer", !.layers = run[r].layers \ {l}, !.layer = None]
  <2>1. next = [run EXCEPT ![r] = at] /\ at.pc = "dropLayer"
    BY <1>1, <1>4 DEF Proceeding, Going, RunType
  <2>2. next \in [Runs -> RunType(marks)]
    BY <1>2, <1>4, GoKeeps DEF Proceeding, Places
  <2> HIDE DEF at, next
  <2>3. next[r].pc \in {"idle", "dropLayer"} /\ \A s \in Runs \ {r} : next[s] = run[s]
    BY <1>1, <2>1
  <2> QED
    BY <2>2, <2>3 DEF next
<1> QED
  BY <1>3, <1>4

\* The steps of a run are of that run only.
LEMMA OnlyOne ==
    ASSUME IInv, NEW r \in Runs, Begin(r) \/ RunStep(r) \/ FailToDrop(r) \/ Abort(r)
    PROVE OnlyRun(r)
<1>1. run \in [Runs -> RunType(marks)]
  BY DEF IInv, TypeOK, RunType
<1>2. CASE Begin(r)
  BY <1>1, <1>2 DEF Begin, OnlyRun
<1>3. CASE List(r) \/ ReadDatabase(r) \/ ReadLayers(r)
  <2>1. Revocable(r) \in SUBSET Layers
    BY DEF Revocable
  <2> QED
    BY <1>3, <2>1, Moves DEF List, ReadDatabase, ReadLayers, Places
<1>4. ASSUME NEW l \in Layers, DropLayer(r, l) PROVE OnlyRun(r)
  <2>1. CASE l \in dirs
    <3> DEFINE at == [run[r] EXCEPT !.pc = "removeLayer", !.layer = l]
    <3>1. run' = [run EXCEPT ![r] = at]
      BY <1>1, <1>4, <2>1 DEF DropLayer, RunType
    <3> HIDE DEF at
    <3> QED
      BY <1>1, <3>1 DEF OnlyRun
  <2>2. CASE l \notin dirs
    BY <1>4, <2>2, ProceedKeeps DEF DropLayer, RunAt, OnlyRun
  <2> QED
    BY <2>1, <2>2
<1>5. CASE RemoveLayer(r)
  <2> DEFINE next == Proceeding(r, run[r].layer)
  <2>1. run[r].layer \in Layers /\ run[r].pc = "removeLayer"
    BY <1>5 DEF RemoveLayer, RunAt, IInv, RunInv, RunsFit
  <2>2. next \in [Runs -> RunType(marks)] /\ \A s \in Runs \ {r} : next[s] = run[s]
    BY <2>1, ProceedKeeps
  <2>3. run' = Unspare(next, {run[r].layer})
    BY <1>5 DEF RemoveLayer, RemoveRows
  <2> HIDE DEF next
  <2> QED
    BY <2>2, <2>3, UnspareKeeps DEF OnlyRun
<1>6. CASE RemoveDatabase(r)
  <2>1. Ended(r) \in [Runs -> RunType(marks)] /\ run' = Unspare(Ended(r), Names)
    BY <1>6, EndKeeps DEF RemoveDatabase, RemoveRows, RowsOfDatabase
  <2>2. \A s \in Runs \ {r} : Ended(r)[s] = run[s]
    BY <1>1 DEF Ended
  <2> QED
    BY <2>1, <2>2, UnspareKeeps DEF OnlyRun
<1>7. CASE DropDatabase(r) \/ Forget(r) \/ FailToDrop(r) \/ Abort(r)
  BY <1>7, Moves DEF DropDatabase, Forget, FailToDrop, Abort, Places
<1> QED
  BY <1>2, <1>3, <1>4, <1>5, <1>6, <1>7 DEF RunStep

\* A run takes the files of a layer before its row, and leaves the layer to
\* whoever else has it in hand.
LEMMA RunRows ==
    ASSUME IInv, RowsInv, NEW r \in Runs, Begin(r) \/ RunStep(r) \/ FailToDrop(r) \/ Abort(r)
    PROVE RowsInv'
<1> USE ConstantsAssumption
<1>1. run \in [Runs -> RunType(marks)]
  BY DEF IInv, TypeOK, RunType
<1>2. PutsUnderWay' = PutsUnderWay
  BY DEF Begin, RunStep, List, ReadDatabase, ReadLayers, DropLayer, RemoveLayer, DropDatabase,
     Forget, RemoveDatabase, FailToDrop, Abort, RunFrame, PutsUnderWay
<1>3. ASSUME OnlyRun(r), UNCHANGED <<dirs, rows, strayed>>,
             \A l \in Layers : PendingBy(run'[r], l) <=> PendingBy(run[r], l)
      PROVE RowsInv'
  BY <1>2, <1>3, PendingOf DEF RowsInv, RowsFit
<1>4. CASE Begin(r)
  <2>1. OnlyRun(r) /\ run[r].pc = "idle" /\ run'[r].pc = "listing"
    BY <1>1, <1>4 DEF Begin, OnlyRun, RunAt, NoRun
  <2> QED
    BY <1>3, <1>4, <2>1 DEF Begin, storeVars, catalogVars, PendingBy
<1>5. CASE List(r) \/ ReadDatabase(r) \/ ReadLayers(r)
  <2>1. /\ run[r].pc \in {"listing", "readDatabase", "readLayers", "readLayersOnly"}
        /\ UNCHANGED <<dirs, rows, strayed>>
    BY <1>5 DEF List, ReadDatabase, ReadLayers, RunAt, storeVars, catalogVars
  <2>2. /\ OnlyRun(r)
        /\ run'[r].pc \in {"idle", "readDatabase", "readLayers", "readLayersOnly", "dropLayer",
                           "dropDatabase"}
    <3>1. Revocable(r) \in SUBSET Layers
      BY DEF Revocable
    <3> QED
      BY <1>5, <3>1, Moves DEF List, ReadDatabase, ReadLayers, Places
  <2> QED
    BY <1>3, <2>1, <2>2 DEF PendingBy
<1>6. ASSUME NEW l \in Layers, DropLayer(r, l) PROVE RowsInv'
  <2>1. run[r].pc = "dropLayer" /\ UNCHANGED rows
    BY <1>6 DEF DropLayer, RunAt, catalogVars
  <2>2. CASE l \notin dirs
    BY <1>3, <1>6, <2>1, <2>2, ProceedKeeps DEF DropLayer, OnlyRun, PendingBy
  <2>3. CASE l \in dirs
    <3> DEFINE at == [run[r] EXCEPT !.pc = "removeLayer", !.layer = l]
    <3>1. run' = [run EXCEPT ![r] = at] /\ at.pc = "removeLayer" /\ at.layer = l
      BY <1>1, <1>6, <2>3 DEF DropLayer, RunType
    <3> HIDE DEF at
    <3>2. /\ OnlyRun(r) /\ run'[r].pc = "removeLayer" /\ run'[r].layer = l
          /\ dirs' = dirs \ {l} /\ strayed' = strayed \cup ({l} \cap PutsUnderWay)
      BY <1>1, <1>6, <2>3, <3>1 DEF DropLayer, OnlyRun
    <3>3. \A k \in Layers : /\ ~PendingBy(run[r], k)
                            /\ PendingBy(run'[r], k) <=> k = l
      BY <2>1, <3>2 DEF PendingBy
    <3>4. \A k \in Layers : RowPending(k)' <=> RowPending(k) \/ k = l
      BY <3>2, <3>3, PendingOf
    <3> QED
      BY <1>2, <2>1, <3>2, <3>4 DEF RowsInv, RowsFit
  <2> QED
    BY <2>2, <2>3
<1>7. ASSUME NEW names \in SUBSET Names, OnlyRun(r), UNCHANGED dirs, rows' = rows \ names,
             strayed' = strayed \ (names \ (dirs \cup PutsUnderWay)),
             \A k \in Layers : PendingBy(run[r], k) <=> k \in names,
             \A k \in Layers : ~PendingBy(run'[r], k)
      PROVE RowsInv'
  <2>1. \A k \in Layers : /\ k \in names => RowPending(k)
                          /\ k \notin names => (RowPending(k)' <=> RowPending(k))
    BY <1>7, PendingOf
  <2> QED
    BY <1>2, <1>7, <2>1 DEF RowsInv, RowsFit
<1>8. CASE RemoveLayer(r)
  <2> DEFINE l == run[r].layer  next == Proceeding(r, l)
  <2>1. run[r].pc = "removeLayer" /\ l \in Layers /\ {l} \in SUBSET Names
    BY <1>8 DEF RemoveLayer, RunAt, IInv, RunInv, RunsFit, Names
  <2>2. /\ run' = Unspare(next, {l}) /\ UNCHANGED dirs /\ rows' = rows \ {l}
        /\ strayed' = strayed \ ({l} \ (dirs \cup PutsUnderWay))
    BY <1>8 DEF RemoveLayer, RemoveRows, storeVars
  <2>3. /\ next \in [Runs -> RunType(marks)] /\ next[r].pc \in {"idle", "dropLayer"}
        /\ \A s \in Runs \ {r} : next[s] = run[s]
    BY <2>1, ProceedKeeps
  <2>4. \A s \in Runs : run'[s].pc = next[s].pc /\ run'[s].layer = next[s].layer
    BY <2>2, <2>3, UnspareKeeps
  <2> HIDE DEF next
  <2>5. /\ OnlyRun(r)
        /\ \A k \in Layers : /\ PendingBy(run[r], k) <=> k \in {l}
                             /\ ~PendingBy(run'[r], k)
    BY <2>1, <2>3, <2>4 DEF OnlyRun, PendingBy
  <2> QED
    BY <1>7, <2>1, <2>2, <2>5
<1>9. CASE RemoveDatabase(r)
  <2>1. /\ run[r].pc = "removeDatabase" /\ run' = Unspare(Ended(r), Names)
        /\ UNCHANGED dirs /\ rows' = rows \ Names
        /\ strayed' = strayed \ (Names \ (dirs \cup PutsUnderWay))
    BY <1>9 DEF RemoveDatabase, RemoveRows, RowsOfDatabase, RunAt, storeVars
  <2>2. \A s \in Runs : run'[s].pc = Ended(r)[s].pc /\ run'[s].layer = Ended(r)[s].layer
    <3>1. Ended(r) \in [Runs -> RunType(marks)]
      BY EndKeeps
    <3> QED
      BY <2>1, <3>1, UnspareKeeps
  <2>3. OnlyRun(r) /\ run'[r].pc = "idle"
    BY <1>1, <2>2 DEF Ended, NoRun, OnlyRun
  <2> QED
    BY <1>7, <2>1, <2>3 DEF PendingBy, Names
<1>10. CASE DropDatabase(r)
  <2>1. run[r].pc = "dropDatabase" /\ UNCHANGED rows
    BY <1>10 DEF DropDatabase, RunAt, catalogVars
  <2>2. CASE directory
    <3>1. /\ OnlyRun(r) /\ run'[r].pc = "forget" /\ dirs' = {}
          /\ strayed' = strayed \cup PutsUnderWay
      BY <1>10, <2>2, Moves DEF DropDatabase, Places
    <3>2. \A k \in Layers : RowPending(k)'
      BY <3>1, PendingOf DEF PendingBy
    <3> QED
      BY <1>2, <3>1, <3>2 DEF RowsInv, RowsFit
  <2>3. CASE ~directory
    <3>1. /\ OnlyRun(r) /\ run'[r].pc = "idle" /\ UNCHANGED <<dirs, strayed>>
      BY <1>10, <2>3, Moves DEF DropDatabase
    <3> QED
      BY <1>3, <2>1, <3>1 DEF PendingBy
  <2> QED
    BY <2>2, <2>3
<1>11. CASE Forget(r)
  <2>1. /\ run[r].pc = "forget" /\ OnlyRun(r) /\ run'[r].pc = "removeDatabase"
        /\ UNCHANGED <<dirs, rows, strayed>>
    BY <1>11, Moves DEF Forget, RunAt, catalogVars, Places
  <2> QED
    BY <1>3, <2>1 DEF PendingBy
<1>12. CASE Abort(r)
  <2>1. /\ OnlyRun(r) /\ run'[r].pc = "idle" /\ UNCHANGED <<dirs, rows>>
        /\ strayed' = strayed \cup Unfinished(r)
    BY <1>12, Moves DEF Abort, storeVars, catalogVars
  <2>2. \A k \in Layers : PendingBy(run[r], k) => k \in strayed'
    BY <2>1 DEF PendingBy, Unfinished
  <2>3. \A k \in Layers : k \notin strayed' => (RowPending(k)' <=> RowPending(k))
    BY <2>1, <2>2, PendingOf DEF PendingBy
  <2> QED
    BY <1>2, <2>1, <2>3 DEF RowsInv, RowsFit
<1>13. CASE FailToDrop(r)
  <2>1. OnlyRun(r) /\ run'[r].pc = "idle" /\ UNCHANGED rows
    BY <1>13, Moves DEF FailToDrop, catalogVars
  <2>2. PICK gone \in SUBSET dirs :
            dirs' = dirs \ gone /\ strayed' = strayed \cup gone \cup PutsUnderWay
    BY <1>13 DEF FailToDrop
  <2>3. \A k \in Layers : ~PendingBy(run[r], k)
    BY <1>13 DEF FailToDrop, RunAt, PendingBy
  <2>4. \A k \in Layers : RowPending(k)' <=> RowPending(k)
    BY <2>1, <2>3, PendingOf DEF PendingBy
  <2> QED
    BY <1>2, <2>1, <2>2, <2>4 DEF RowsInv, RowsFit
<1> QED
  BY <1>4, <1>5, <1>6, <1>8, <1>9, <1>10, <1>11, <1>12, <1>13 DEF RunStep

\* Every step keeps rows and files together.
LEMMA NextRows == IInv /\ RowsInv /\ [Next]_vars => RowsInv'
<1>1. RowsInv /\ UNCHANGED vars => RowsInv'
  BY DEF vars, storeVars, catalogVars, RowsInv, RowsFit, RowPending, PutsUnderWay
<1> QED
  BY <1>1, RequestRows, WorldRows, RunRows DEF Next

\* Whatever overlaps, fails or is cut short, between runs and PUTs the catalog
\* lists the layers that have files and no others, but for those that strayed.
THEOREM CatalogTrue == Spec => []RowsMatchFiles
<1>1. IInv /\ RowsInv => RowsMatchFiles
  <2> SUFFICES ASSUME IInv, RowsInv, \A r \in Runs : RunAt(r, "idle"), PutsUnderWay = {},
                      NEW l, l \notin strayed
               PROVE l \in rows \cap Layers <=> l \in dirs
    BY DEF RowsMatchFiles
  <2>1. ~RowPending(l)
    BY DEF RowPending, RunAt
  <2>2. dirs \subseteq Layers
    BY DEF IInv, TypeOK
  <2> QED
    BY <2>1, <2>2 DEF RowsInv, RowsFit
<1> QED
  BY <1>1, InitInv, NextInv, InitRows, NextRows, PTL DEF Spec

-----------------------------------------------------------------------------
(* The access marker.                                                      *)

\* Who is throttled need not write: the marker is fresh, is being written, or is
\* known to be missing until the throttle goes.
MarkInv ==
    /\ recent /\ ~unmarked => marker = "fresh" \/ Marking
    /\ throttled /\ ~unmarked => marker = "fresh" \/ Marking

\* At the start nobody is throttled.
LEMMA InitMark == Init => MarkInv
BY DEF Init, MarkInv

\* A request is throttled only after another has set out to write the marker.
LEMMA RequestMark ==
    ASSUME IInv, MarkInv, NEW u \in Users,
           \/ \E l \in Layers : Put(u, l)
           \/ Get(u) \/ UseStep(u) \/ FailToMark(u) \/ Leave(u)
    PROVE MarkInv'
<1>1. use \in [Users -> UseType]
  BY DEF IInv, TypeOK, UseType
<1>2. CASE (\E l \in Layers : Put(u, l)) \/ Get(u) \/ Report(u)
  <2>1. UNCHANGED <<marker, throttled, unmarked, recent>>
    BY <1>2 DEF Put, Get, Report, storeVars, markVars
  <2>2. Marking => Marking'
    BY <1>1, <1>2 DEF Put, Get, Report, At, Marking
  <2> QED
    BY <2>1, <2>2 DEF MarkInv
<1>3. CASE Skip(u)
  <2>1. throttled /\ UNCHANGED <<marker, throttled, unmarked>>
    BY <1>3 DEF Skip, storeVars
  <2>2. Marking => Marking'
    BY <1>1, <1>3 DEF Skip, Touched, GoUse, At, Marking
  <2> QED
    BY <2>1, <2>2 DEF MarkInv
<1>4. CASE Touch(u)
  <2>1. Marking'
    BY <1>1, <1>4 DEF Touch, GoUse, Marking
  <2> QED
    BY <2>1 DEF MarkInv
<1>5. CASE Mark(u)
  BY <1>5 DEF Mark, MarkInv
<1>6. CASE FailToMark(u)
  BY <1>6 DEF FailToMark, MarkInv
<1>7. CASE Leave(u)
  <2>1. /\ unmarked' = (unmarked \/ use[u].pc = "mark")
        /\ UNCHANGED <<marker, throttled, recent>>
    BY <1>7 DEF Leave, At, storeVars
  <2>2. Marking => Marking' \/ use[u].pc = "mark"
    BY <1>1, <1>7 DEF Leave, Marking
  <2> QED
    BY <2>1, <2>2 DEF MarkInv
<1> QED
  BY <1>2, <1>3, <1>4, <1>5, <1>6, <1>7 DEF UseStep

\* The marker ages only when nobody is throttled; a throttle that goes takes the
\* requests it has kept from marking with it.
LEMMA WorldMark ==
    ASSUME IInv, MarkInv, CachedGet \/ (\E n \in Names : Protect(n)) \/ Expire \/ Age \/ Restart
    PROVE MarkInv'
<1>1. CASE CachedGet
  BY <1>1 DEF CachedGet, storeVars, UseFrame, MarkInv, Marking
<1>2. ASSUME NEW n \in Names, Protect(n) PROVE MarkInv'
  BY <1>2 DEF Protect, storeVars, markVars, MarkInv, Marking
<1>3. CASE Expire
  BY <1>3 DEF Expire, Unthrottle, MarkInv
<1>4. CASE Age
  BY <1>4 DEF Age, MarkInv
<1>5. CASE Restart
  BY <1>5 DEF Restart, MarkInv
<1> QED
  BY <1>1, <1>2, <1>3, <1>4, <1>5

\* A run takes the marker and then the throttle.
LEMMA RunMark ==
    ASSUME IInv, MarkInv, NEW r \in Runs, Begin(r) \/ RunStep(r) \/ FailToDrop(r) \/ Abort(r)
    PROVE MarkInv'
<1>1. Marking' = Marking
  BY DEF Begin, RunStep, List, ReadDatabase, ReadLayers, DropLayer, RemoveLayer, DropDatabase,
     Forget, RemoveDatabase, FailToDrop, Abort, RunFrame, Marking
<1>2. CASE Forget(r)
  BY <1>1, <1>2 DEF Forget, Forgotten, MarkInv
<1>3. CASE DropDatabase(r) /\ directory
  BY <1>3 DEF DropDatabase, MarkInv
<1>4. CASE FailToDrop(r)
  BY <1>1, <1>4 DEF FailToDrop, MarkInv
<1>5. CASE ~Forget(r) /\ ~FailToDrop(r) /\ ~(DropDatabase(r) /\ directory)
  <2>1. UNCHANGED <<marker, throttled, recent, unmarked>>
    BY <1>5 DEF Begin, RunStep, List, ReadDatabase, ReadLayers, DropLayer, RemoveLayer, DropDatabase,
       RemoveDatabase, Abort, storeVars, markVars
  <2> QED
    BY <1>1, <2>1 DEF MarkInv
<1> QED
  BY <1>2, <1>3, <1>4, <1>5

\* Every step keeps the marker truthful.
LEMMA NextMark == IInv /\ MarkInv /\ [Next]_vars => MarkInv'
<1>1. MarkInv /\ UNCHANGED vars => MarkInv'
  BY DEF vars, storeVars, markVars, MarkInv, Marking
<1> QED
  BY <1>1, RequestMark, WorldMark, RunMark DEF Next

\* store.rs:664-679, 554-565: a database in use has a fresh marker once nobody is
\* writing it, but while a throttle holds whose mark was never written or was
\* taken by a removal that has not, or not yet, dropped the throttle.
THEOREM MarkerFresh == Spec => []MarkerTruthful
<1>1. MarkInv => MarkerTruthful
  BY DEF MarkInv, MarkerTruthful
<1> QED
  BY <1>1, InitInv, NextInv, InitMark, NextMark, PTL DEF Spec
==============================================================================

------------------------------ MODULE PageProofs ------------------------------
(***************************************************************************)
(* Proofs about the pages: the JSON session, for every ECU file, every     *)
(* search text and whatever overtakes what; the main window, for every     *)
(* order of pages, presses and ending threads; and the search for ECUs,    *)
(* for every car, in the last part.                                        *)
(***************************************************************************)
EXTENDS Windows, JsonSession, DiagScanner, SequenceTheorems, FiniteSetTheorems,
        WellFoundedInduction, TLAPS

(* The JSON session.  What is posted and not yet handled still fits: a     *)
(* graph that is being started is of a service of the present variant.     *)
PostedFits ==
  \A p \in posted :
    /\ p[1].m = "Navigate" => p[1].page \in {"ECUInfo", "Error"}
    /\ p[1].m = "PickLoopService" =>
         /\ p[1].service \in Services
         /\ ~overtaken => selector.is_loop /\ (~outdated => p[1].service.variant = variant)

ServicesFit == SelectorFits /\ LoopCanBeStopped

\* The page, and the view that was drawn of it.
PageInv == PageTypeOK /\ ServicesFit /\ RowsAreLogged /\ PostedFits
JInv == PageInv /\ JsonTypeOK /\ PressesArePrepared

SelectorType ==
  [view : Views, query : Queries, shown : SUBSET Services,
   selected : Services \cup {Nothing}, can_execute : BOOLEAN, is_loop : BOOLEAN]

\* What a message the page offers tells.
LEMMA OfferParts ==
  ASSUME NEW msg \in Current
  PROVE  /\ msg.m = "SelectVariant" => msg.variant \in Variants
         /\ msg.m = "Navigate" => msg.page = "Main"
         /\ msg.m = "Select" => msg.row \in DOMAIN table_dtc.rows /\ logged_dtcs # <<>>
         /\ msg.m = "View" => msg.view \in Views
         /\ msg.m = "Search" => msg.query \in Queries
         /\ msg.m = "PickService" => msg.service \in selector.shown
         /\ msg.m = "ExecService" => selector.selected # Nothing
<1>1. CASE msg \in SelectorOffers
  BY <1>1 DEF SelectorOffers, Msg
<1>2. CASE msg \in MainOffers
  BY <1>1, <1>2 DEF MainOffers, Msg
<1>3. CASE msg \in ErrorOffers
  BY <1>3 DEF ErrorOffers, Msg
<1>4. CASE msg \in InfoOffers \cup JsonTicks
  BY <1>4 DEF InfoOffers, JsonTicks, Msg
<1> QED
  BY <1>2, <1>3, <1>4 DEF Current, JsonOffers

\* What any message tells that a view offered once.
LEMMA MessageParts ==
  ASSUME NEW msg \in JsonMessages
  PROVE  /\ msg.m = "SelectVariant" => msg.variant \in Variants
         /\ msg.m = "Navigate" => msg.page = "Main"
         /\ msg.m = "Select" => msg.row \in 1..MaxDtcs
         /\ msg.m = "View" => msg.view \in Views
         /\ msg.m = "Search" => msg.query \in Queries
         /\ msg.m = "PickService" => msg.service \in Services
BY DEF JsonMessages, Msg

LEMMA BoundsAreNat == MaxDtcs \in Nat /\ MaxPresses \in Nat
BY JsonAssumption

LEMMA ReadingRows ==
  ASSUME NEW codes \in Readings
  PROVE  /\ codes \in Seq(Dtcs) /\ DOMAIN codes \subseteq 1..MaxDtcs
         /\ \A i \in DOMAIN codes : codes[i] \in Dtcs
<1>1. MaxDtcs \in Nat
  BY BoundsAreNat
<1>2. PICK n \in 0..MaxDtcs : codes \in [1..n -> Dtcs]
  BY DEF Readings
<1>3. n \in Nat /\ n <= MaxDtcs
  BY <1>1, <1>2
<1> QED
  BY <1>1, <1>2, <1>3, SeqDef

LEMMA NoReading == <<>> \in Readings
<1>1. MaxDtcs \in Nat
  BY BoundsAreNat
<1>2. <<>> \in [1..0 -> Dtcs] /\ 0 \in 0..MaxDtcs
  BY <1>1
<1> QED
  BY <1>2 DEF Readings

\* The view of a page that is well typed offers messages that are.
LEMMA ViewTyped ==
  ASSUME PageTypeOK
  PROVE  Current \subseteq JsonMessages
<1>0. selector.shown \subseteq Services /\ DOMAIN table_dtc.rows \subseteq 1..MaxDtcs
  BY ReadingRows DEF PageTypeOK
<1> SUFFICES ASSUME NEW msg \in Current PROVE msg \in JsonMessages
  OBVIOUS
<1>1. CASE msg \in SelectorOffers
  BY <1>0, <1>1 DEF SelectorOffers, JsonMessages
<1>2. CASE msg \in MainOffers
  BY <1>1, <1>2 DEF MainOffers, JsonMessages
<1>3. CASE msg \in ErrorOffers
  BY <1>0, <1>3 DEF ErrorOffers, JsonMessages
<1>4. CASE msg \in InfoOffers \cup JsonTicks
  BY <1>4 DEF InfoOffers, JsonTicks, JsonMessages
<1> QED
  BY <1>2, <1>3, <1>4 DEF Current, JsonOffers

LEMMA NewSelectorFits ==
  ASSUME NEW v
  PROVE  /\ NewSelector(v) \in SelectorType
         /\ NewSelector(v).selected = Nothing /\ ~NewSelector(v).can_execute
         /\ NewSelector(v).shown \subseteq
              ShownOf(List(v, NewSelector(v).view), NewSelector(v).query)
<1>1. List(v, "read") \subseteq Services /\ "" \in Queries /\ Matching[""] = Services
  BY JsonAssumption DEF List
<1> QED
  BY <1>1 DEF NewSelector, SelectorType, Views, ShownOf

(* The variant and the selector, and the graph, change together.           *)
LEMMA VariantKeeps ==
  ASSUME PageInv, outdated => outdated', NEW v \in Variants, SelectVariant(v)
  PROVE  PageInv'
<1>1. CASE v \in Patternless
  BY <1>1 DEF SelectVariant, KeepServices, KeepTables, PageInv, PageTypeOK, ServicesFit, SelectorFits,
              LoopCanBeStopped, RowsAreLogged, PostedFits
<1>2. CASE v \notin Patternless
  <2>1. /\ variant' = v /\ selector' = NewSelector(v) /\ looping_service' = Nothing
        /\ overtaken' = (overtaken \/ LoopPosted) /\ UNCHANGED <<page_state, posted>>
        /\ UNCHANGED <<logged_dtcs, table_dtc, env_table>>
    BY <1>2 DEF SelectVariant, KeepTables
  <2>2. PageTypeOK' /\ SelectorFits'
    BY <2>1, NewSelectorFits DEF PageInv, PageTypeOK, SelectorFits, SelectorType
  <2>3. LoopCanBeStopped' /\ RowsAreLogged'
    BY <2>1 DEF PageInv, LoopCanBeStopped, RowsAreLogged
  <2>4. PostedFits'
    BY <2>1 DEF PageInv, PostedFits, LoopPosted
  <2> QED
    BY <2>2, <2>3, <2>4 DEF PageInv, ServicesFit
<1> QED
  BY <1>1, <1>2

LEMMA PostAdds ==
  ASSUME NEW message, Post(message)
  PROVE  \A p \in posted' : p \in posted \/ p[1] = message
<1>1. PICK copy \in 1..MaxPosted : posted' = posted \cup {<<message, copy>>}
  BY DEF Post
<1> QED
  BY <1>1

(* A step of the tables, or one that posts a message, leaves the services. *)
LEMMA TablesKeep ==
  ASSUME PageInv, outdated => outdated', KeepServices, page_state' \in {"Main", "ECUInfo", "Error"},
         logged_dtcs' \in Readings, table_dtc'.rows \in Readings,
         table_dtc'.selected_row \in Nat \ {0}, env_table' \in Dtcs \cup {Nothing},
         RowsAreLogged',
         \A p \in posted' \ posted :
           /\ p[1].m = "Navigate" => p[1].page \in {"ECUInfo", "Error"}
           /\ p[1].m # "PickLoopService"
  PROVE  PageInv'
BY DEF KeepServices, PageInv, PageTypeOK, ServicesFit, SelectorFits, LoopCanBeStopped, PostedFits

LEMMA TableStep ==
  ASSUME PageInv, outdated => outdated',
         \/ ReadInfo \/ ReadErrors \/ ClearErrors \/ Exec
         \/ \E row \in 1..MaxDtcs : SelectRow(row)
         \/ \E target \in {"Main", "ECUInfo", "Error"} :
              Navigate(target) /\ (posted' = posted \/ \E p : Posted(p))
  PROVE  PageInv'
<1>0. PageTypeOK /\ RowsAreLogged
  BY DEF PageInv
<1>1. CASE ReadInfo
  <2>1. \A p \in posted' : p \in posted \/ p[1] = [m |-> "Navigate", page |-> "ECUInfo"]
    BY <1>1, PostAdds DEF ReadInfo
  <2> QED
    BY <1>0, <1>1, <2>1, TablesKeep DEF ReadInfo, KeepTables, PageTypeOK, RowsAreLogged
<1>2. CASE ReadErrors
  <2>1. CASE logged_dtcs' = <<>> /\ UNCHANGED <<table_dtc, posted>>
    <3>1. logged_dtcs' \in Readings /\ RowsAreLogged'
      BY <2>1, NoReading DEF RowsAreLogged
    <3> QED
      BY <1>0, <1>2, <2>1, <3>1, TablesKeep DEF ReadErrors, PageTypeOK
  <2>2. CASE ~(logged_dtcs' = <<>> /\ UNCHANGED <<table_dtc, posted>>)
    <3>1. PICK codes \in Readings :
            /\ logged_dtcs' = codes /\ table_dtc' = [rows |-> codes, selected_row |-> 1]
            /\ \/ Post([m |-> "Navigate", page |-> "Error"])
               \/ UNCHANGED posted
      BY <1>2, <2>2 DEF ReadErrors
    <3>2. /\ logged_dtcs' \in Readings /\ table_dtc'.rows \in Readings
          /\ table_dtc'.selected_row \in Nat \ {0} /\ RowsAreLogged'
      BY <3>1 DEF RowsAreLogged
    <3>3. \A p \in posted' \ posted : p[1] = [m |-> "Navigate", page |-> "Error"]
      BY <3>1, PostAdds
    <3>4. KeepServices /\ UNCHANGED <<page_state, env_table>>
      BY <1>2 DEF ReadErrors
    <3> QED
      BY <1>0, <3>2, <3>3, <3>4, TablesKeep DEF PageTypeOK
  <2> QED
    BY <2>1, <2>2
<1>3. CASE ClearErrors
  <2>1. /\ KeepServices /\ UNCHANGED <<page_state, table_dtc, env_table, posted>>
        /\ logged_dtcs' \in {<<>>, logged_dtcs}
    BY <1>3 DEF ClearErrors
  <2>2. logged_dtcs' \in Readings /\ RowsAreLogged'
    BY <1>0, <2>1, NoReading DEF PageTypeOK, RowsAreLogged
  <2> QED
    BY <1>0, <2>1, <2>2, TablesKeep DEF PageTypeOK
<1>4. CASE Exec
  <2>1. /\ KeepServices /\ UNCHANGED <<page_state, logged_dtcs, table_dtc, env_table>>
        /\ \A p \in posted' \ posted : p[1].m = "ExecuteService"
    BY <1>4, PostAdds DEF Exec, Msg, KeepTables
  <2> QED
    BY <1>0, <2>1, TablesKeep DEF PageTypeOK, RowsAreLogged
<1>5. ASSUME NEW row \in 1..MaxDtcs, SelectRow(row) PROVE PageInv'
  <2>1. /\ env_table' = IF row \in DOMAIN logged_dtcs THEN logged_dtcs[row] ELSE env_table
        /\ table_dtc' = [table_dtc EXCEPT !.selected_row = row]
        /\ KeepServices /\ UNCHANGED <<page_state, logged_dtcs, posted>>
    BY <1>5 DEF SelectRow, SelectInRange
  <2>2. row \in Nat \ {0}
    OBVIOUS
  <2>3. env_table' \in Dtcs \cup {Nothing}
    BY <1>0, <2>1, ReadingRows DEF PageTypeOK
  <2>4. table_dtc'.rows = table_dtc.rows
    BY <2>1
  <2>5. CASE table_dtc'.selected_row = row
    BY <1>0, <2>1, <2>2, <2>3, <2>4, <2>5, TablesKeep DEF PageTypeOK, RowsAreLogged
  <2>6. CASE table_dtc'.selected_row = table_dtc.selected_row
    BY <1>0, <2>1, <2>3, <2>4, <2>6, TablesKeep DEF PageTypeOK, RowsAreLogged
  <2> QED
    BY <2>1, <2>5, <2>6
<1>6. ASSUME NEW target \in {"Main", "ECUInfo", "Error"}, Navigate(target),
             posted' = posted \/ \E p : Posted(p)
      PROVE  PageInv'
  <2>1. posted' \subseteq posted
    BY <1>6 DEF Posted
  <2> QED
    BY <1>0, <1>6, <2>1, TablesKeep DEF Navigate, KeepTables, PageTypeOK, RowsAreLogged
<1> QED
  BY <1>1, <1>2, <1>3, <1>4, <1>5, <1>6

(* The selector, with or without a graph started or stopped.               *)
LEMMA SelectorKeeps ==
  ASSUME PageInv, outdated => outdated', UNCHANGED <<page_state, variant, posted>>, KeepTables,
         selector' \in SelectorType, SelectorFits',
         \/ looping_service' = looping_service /\ overtaken' = overtaken
              /\ selector'.is_loop = selector.is_loop
         \/ looping_service' = Nothing /\ overtaken' = (overtaken \/ LoopPosted)
  PROVE  PageInv'
<1>1. PageTypeOK /\ RowsAreLogged /\ LoopCanBeStopped /\ PostedFits
  BY DEF PageInv, ServicesFit
<1>2. PageTypeOK' /\ RowsAreLogged'
  BY <1>1 DEF KeepTables, PageTypeOK, SelectorType, RowsAreLogged
<1>3. LoopCanBeStopped'
  BY <1>1 DEF LoopCanBeStopped
<1>4. PostedFits'
  <2>1. CASE overtaken' = overtaken /\ selector'.is_loop = selector.is_loop
    BY <1>1, <2>1 DEF PostedFits
  <2>2. CASE overtaken' = (overtaken \/ LoopPosted)
    BY <1>1, <2>2 DEF PostedFits, LoopPosted
  <2> QED
    BY <2>1, <2>2
<1> QED
  BY <1>2, <1>3, <1>4 DEF PageInv, ServicesFit

LEMMA ListIs ==
  ASSUME NEW v, NEW view
  PROVE  /\ List(v, view) \subseteq Services
         /\ \A s \in List(v, view) : s \in Services /\ s.variant = v /\ s.list = view
         /\ \A query : ShownOf(List(v, view), query) \subseteq List(v, view)
BY DEF List, ShownOf

LEMMA SelectorStep ==
  ASSUME PageInv, outdated => outdated',
         \/ \E view \in Views : View(view)
         \/ \E query \in Queries : Search(query)
         \/ \E s \in Services : PickService(s) /\ (s \in selector.shown \/ outdated')
         \/ StopLoop
  PROVE  PageInv'
<1>0. selector \in SelectorType /\ SelectorFits
  BY DEF PageInv, PageTypeOK, ServicesFit, SelectorType
<1>1. ASSUME NEW view \in Views, View(view) PROVE PageInv'
  <2> DEFINE shown == ShownOf(List(variant, view), selector.query)
  <2>1. shown \subseteq Services
    BY ListIs
  <2> HIDE DEF shown
  <2>2. selector' = [selector EXCEPT !.view = view, !.selected = Nothing,
                       !.can_execute = FALSE, !.shown = shown]
    BY <1>1 DEF View, SelectorSet, shown
  <2>3. /\ selector' \in SelectorType /\ selector'.view = view /\ selector'.shown = shown
        /\ selector'.selected = Nothing /\ ~selector'.can_execute
        /\ selector'.query = selector.query /\ selector'.is_loop = selector.is_loop
    BY <1>0, <2>1, <2>2 DEF SelectorType
  <2>4. UNCHANGED <<page_state, variant, looping_service, posted, overtaken>> /\ KeepTables
    BY <1>1 DEF View, SelectorSet
  <2>5. SelectorFits'
    BY <2>3, <2>4 DEF SelectorFits, shown
  <2> QED
    BY <2>3, <2>4, <2>5, SelectorKeeps
<1>2. ASSUME NEW query \in Queries, Search(query) PROVE PageInv'
  <2> DEFINE shown == ShownOf(IF <<selector.query, query>> \in Longer THEN selector.shown
                              ELSE List(variant, selector.view), query)
  <2>1. shown \subseteq ShownOf(List(variant, selector.view), query)
    BY <1>0 DEF SelectorFits, ShownOf
  <2>2. shown \subseteq Services
    BY <2>1, ListIs
  <2> HIDE DEF shown
  <2>3. selector' = [selector EXCEPT !.query = query, !.shown = shown]
    BY <1>2 DEF Search, SelectorSet, shown
  <2>4. /\ selector' \in SelectorType /\ selector'.shown = shown /\ selector'.query = query
        /\ selector'.selected = selector.selected /\ selector'.view = selector.view
        /\ selector'.can_execute = selector.can_execute /\ selector'.is_loop = selector.is_loop
    BY <1>0, <2>2, <2>3 DEF SelectorType
  <2>5. UNCHANGED <<page_state, variant, looping_service, posted, overtaken>> /\ KeepTables
    BY <1>2 DEF Search, SelectorSet
  <2>6. SelectorFits'
    BY <1>0, <2>1, <2>4, <2>5 DEF SelectorFits
  <2> QED
    BY <2>4, <2>5, <2>6, SelectorKeeps
<1>3. ASSUME NEW s \in Services, PickService(s), s \in selector.shown \/ outdated'
      PROVE  PageInv'
  <2> DEFINE ready == ~s.input
  <2>1. (s \in List(variant, selector.view) \/ outdated') /\ ready \in BOOLEAN
    BY <1>0, <1>3, ListIs DEF SelectorFits
  <2>2. ready = ~s.input
    OBVIOUS
  <2> HIDE DEF ready
  <2>3. selector' = [selector EXCEPT !.selected = s, !.can_execute = ready]
    BY <1>3 DEF PickService, SelectorSet, ready
  <2>4. /\ selector' \in SelectorType /\ selector'.shown = selector.shown
        /\ selector'.query = selector.query /\ selector'.view = selector.view
        /\ selector'.selected = s /\ selector'.can_execute = ready
        /\ selector'.is_loop = selector.is_loop
    BY <1>0, <2>1, <2>3 DEF SelectorType
  <2>5. UNCHANGED <<page_state, variant, looping_service, posted, overtaken>> /\ KeepTables
    BY <1>3 DEF PickService, SelectorSet
  <2>6. s # Nothing
    BY JsonAssumption
  <2>7. SelectorFits'
    BY <1>0, <2>1, <2>2, <2>4, <2>5, <2>6 DEF SelectorFits
  <2> QED
    BY <2>4, <2>5, <2>7, SelectorKeeps
<1>4. CASE StopLoop
  <2>1. selector' = [selector EXCEPT !.is_loop = FALSE]
    BY <1>4 DEF StopLoop
  <2>2. /\ selector' \in SelectorType /\ selector'.shown = selector.shown
        /\ selector'.query = selector.query /\ selector'.view = selector.view
        /\ selector'.selected = selector.selected /\ selector'.can_execute = selector.can_execute
    BY <1>0, <2>1 DEF SelectorType
  <2>3. /\ UNCHANGED <<page_state, variant, posted>> /\ KeepTables
        /\ looping_service' = Nothing /\ overtaken' = (overtaken \/ LoopPosted)
    BY <1>4 DEF StopLoop
  <2>4. SelectorFits'
    BY <1>0, <2>2, <2>3 DEF SelectorFits
  <2> QED
    BY <2>2, <2>3, <2>4, SelectorKeeps
<1> QED
  BY <1>1, <1>2, <1>3, <1>4

(* A graph is asked for, and is started when its message comes back.       *)
LEMMA BeginKeeps ==
  ASSUME PageInv, outdated => outdated', BeginLoop
  PROVE  PageInv'
<1>0. /\ selector \in SelectorType /\ SelectorFits /\ LoopCanBeStopped /\ PostedFits
      /\ PageTypeOK /\ RowsAreLogged
  BY DEF PageInv, PageTypeOK, ServicesFit, SelectorType
<1>1. UNCHANGED <<page_state, variant, looping_service, overtaken>> /\ KeepTables
  BY DEF BeginLoop
<1>2. CASE selector.selected = Nothing
  <2>1. UNCHANGED <<selector, posted>>
    BY <1>2 DEF BeginLoop
  <2> QED
    BY <1>0, <1>1, <2>1, SelectorKeeps DEF SelectorFits
<1>3. CASE selector.selected # Nothing
  <2>1. /\ selector' = [selector EXCEPT !.is_loop = TRUE]
        /\ \A p \in posted' : p \in posted \/ p[1] = PickLoop(selector.selected)
    BY <1>3, PostAdds DEF BeginLoop
  <2>2. /\ selector' \in SelectorType /\ selector'.shown = selector.shown
        /\ selector'.query = selector.query /\ selector'.view = selector.view
        /\ selector'.selected = selector.selected /\ selector'.can_execute = selector.can_execute
        /\ selector'.is_loop
    BY <1>0, <2>1 DEF SelectorType
  <2>3. selector.selected \in Services /\ (~outdated => selector.selected.variant = variant)
    BY <1>0, <1>3, ListIs DEF SelectorFits, SelectorType
  <2>4. PageTypeOK' /\ RowsAreLogged'
    BY <1>0, <1>1, <2>2 DEF KeepTables, PageTypeOK, SelectorType, RowsAreLogged
  <2>5. SelectorFits' /\ LoopCanBeStopped'
    BY <1>0, <1>1, <2>2 DEF SelectorFits, LoopCanBeStopped
  <2>6. PostedFits'
    <3> SUFFICES ASSUME NEW p \in posted'
                 PROVE  /\ p[1].m = "Navigate" => p[1].page \in {"ECUInfo", "Error"}
                        /\ p[1].m = "PickLoopService" =>
                             /\ p[1].service \in Services
                             /\ ~overtaken =>
                                  selector'.is_loop /\ (~outdated' => p[1].service.variant = variant)
      BY <1>1 DEF PostedFits
    <3>1. CASE p \in posted
      BY <1>0, <2>2, <3>1 DEF PostedFits
    <3>2. CASE p[1] = PickLoop(selector.selected)
      BY <2>2, <2>3, <3>2 DEF PickLoop
    <3> QED
      BY <2>1, <3>1, <3>2
  <2> QED
    BY <2>4, <2>5, <2>6 DEF PageInv, ServicesFit
<1> QED
  BY <1>2, <1>3

LEMMA LoopStarts ==
  ASSUME PageInv, UNCHANGED outdated, NEW p \in posted, p[1].m = "PickLoopService",
         SetLoop(p[1].service), posted' \subseteq posted
  PROVE  PageInv'
<1>1. /\ PageTypeOK /\ SelectorFits /\ LoopCanBeStopped /\ RowsAreLogged /\ PostedFits
      /\ p[1].service \in Services
      /\ ~overtaken => selector.is_loop /\ (~outdated => p[1].service.variant = variant)
  BY DEF PageInv, ServicesFit, PostedFits
<1>2. /\ looping_service' = p[1].service
      /\ UNCHANGED <<page_state, variant, selector, overtaken>> /\ KeepTables
  BY DEF SetLoop
<1>3. PageTypeOK' /\ RowsAreLogged'
  BY <1>1, <1>2 DEF KeepTables, PageTypeOK, RowsAreLogged
<1>4. SelectorFits' /\ LoopCanBeStopped'
  BY <1>1, <1>2 DEF SelectorFits, LoopCanBeStopped
<1>5. PostedFits'
  BY <1>1, <1>2 DEF PostedFits
<1> QED
  BY <1>3, <1>4, <1>5 DEF PageInv, ServicesFit

LEMMA JsonStarts ==
  ASSUME JsonInit
  PROVE  JInv
<1>1. /\ page_state = "Main" /\ variant \in Variants /\ selector = NewSelector(variant)
      /\ looping_service = Nothing /\ logged_dtcs = <<>> /\ env_table = Nothing
      /\ table_dtc.rows = <<>> /\ table_dtc.selected_row = 1
      /\ posted = {} /\ overtaken = FALSE
      /\ json_drawn = Current /\ json_handled = 0 /\ outdated = FALSE /\ json_panicked = FALSE
  BY DEF JsonInit
<1>2. selector \in SelectorType /\ SelectorFits
  BY <1>1, NewSelectorFits DEF SelectorFits
<1>3. logged_dtcs \in Readings /\ table_dtc.rows \in Readings
  BY <1>1, NoReading
<1>4. PageTypeOK
  <2>1. /\ page_state \in {"Main", "ECUInfo", "Error"} /\ variant \in Variants
        /\ looping_service \in Services \cup {Nothing} /\ env_table \in Dtcs \cup {Nothing}
    BY <1>1
  <2>2. table_dtc.selected_row \in Nat \ {0}
    BY <1>1
  <2>3. overtaken \in BOOLEAN
    BY <1>1
  <2> QED
    BY <1>2, <1>3, <2>1, <2>2, <2>3 DEF PageTypeOK, SelectorType
<1>5. JsonTypeOK
  <2>1. 0 \in 0..MaxPresses
    BY BoundsAreNat
  <2> QED
    BY <1>1, <1>4, <2>1, ViewTyped DEF JsonTypeOK
<1>6. LoopCanBeStopped /\ RowsAreLogged /\ PostedFits /\ PressesArePrepared
  BY <1>1 DEF LoopCanBeStopped, RowsAreLogged, PostedFits, PressesArePrepared
<1> QED
  BY <1>2, <1>4, <1>5, <1>6 DEF JInv, PageInv, ServicesFit

(* A press, of the view drawn last: whether the page would still offer it  *)
(* or not.                                                                 *)
LEMMA PressKeeps ==
  ASSUME PageInv, outdated => outdated', NEW msg \in JsonMessages, JsonUpdate(msg),
         msg \in Current \/ outdated'
  PROVE  PageInv'
<1>1. CASE msg.m = "SelectVariant"
  BY <1>1, MessageParts, VariantKeeps DEF JsonUpdate
<1>2. CASE msg.m = "Navigate"
  BY <1>2, MessageParts, TableStep DEF JsonUpdate
<1>3. CASE msg.m \in {"ReadInfo", "ReadErrors", "ClearErrors", "ExecService"}
  BY <1>3, TableStep DEF JsonUpdate
<1>4. CASE msg.m = "Select"
  BY <1>4, MessageParts, TableStep DEF JsonUpdate
<1>5. CASE msg.m \in {"View", "Search", "PickService", "StopLoopService"}
  BY <1>5, MessageParts, OfferParts, SelectorStep DEF JsonUpdate
<1>6. CASE msg.m = "BeginLoopService"
  BY <1>6, BeginKeeps DEF JsonUpdate
<1>7. CASE msg.m \in {"Command", "LoopRead"}
  BY <1>7 DEF JsonUpdate, pageVars, PageInv, PageTypeOK, ServicesFit, SelectorFits,
              LoopCanBeStopped, RowsAreLogged, PostedFits
<1> QED
  BY <1>1, <1>2, <1>3, <1>4, <1>5, <1>6, <1>7 DEF JsonUpdate

(* What the page would offer now unwraps and indexes what is there.        *)
LEMMA OffersPrepared ==
  ASSUME RowsAreLogged, NEW msg \in Current
  PROVE  ~JsonPanics(msg)
<1>1. CASE msg.m = "Select"
  <2>1. msg.row \in DOMAIN table_dtc.rows /\ table_dtc.rows = logged_dtcs
    BY <1>1, OfferParts DEF RowsAreLogged
  <2> QED
    BY <1>1, <2>1 DEF JsonPanics, SelectInRange
<1>2. CASE msg.m = "ExecService"
  BY <1>2, OfferParts DEF JsonPanics, ExecReady
<1> QED
  BY <1>1, <1>2 DEF JsonPanics

LEMMA DeliverKeeps ==
  ASSUME PageInv, Deliver
  PROVE  PageInv'
<1>1. PICK p \in posted :
        /\ \/ p[1].m = "PickLoopService" /\ SetLoop(p[1].service)
           \/ p[1].m = "Navigate" /\ Navigate(p[1].page)
           \/ KeepServices /\ KeepTables /\ UNCHANGED page_state
        /\ Posted(p)
  BY DEF Deliver
<1>2. posted' \subseteq posted /\ UNCHANGED outdated
  BY <1>1 DEF Deliver, Posted
<1>3. CASE p[1].m = "PickLoopService" /\ SetLoop(p[1].service)
  BY <1>2, <1>3, LoopStarts
<1>4. CASE p[1].m = "Navigate" /\ Navigate(p[1].page)
  <2>1. p[1].page \in {"Main", "ECUInfo", "Error"}
    BY <1>4 DEF PageInv, PostedFits
  <2> QED
    BY <1>1, <1>2, <1>4, <2>1, TableStep
<1>5. CASE KeepServices /\ KeepTables /\ UNCHANGED page_state
  BY <1>2, <1>5, TablesKeep DEF PageInv, PageTypeOK, KeepTables, RowsAreLogged
<1> QED
  BY <1>1, <1>3, <1>4, <1>5

LEMMA PageUnchanged ==
  ASSUME PageInv, UNCHANGED pageVars, UNCHANGED outdated
  PROVE  PageInv' /\ UNCHANGED Current
<1>1. UNCHANGED <<page_state, variant, selector, looping_service, logged_dtcs, table_dtc,
                  env_table, posted, overtaken>>
  BY DEF pageVars
<1>2. PageInv'
  BY <1>1 DEF PageInv, PageTypeOK, ServicesFit, SelectorFits, LoopCanBeStopped, RowsAreLogged,
              PostedFits
<1>3. UNCHANGED SelectorOffers
  BY <1>1 DEF SelectorOffers
<1>4. UNCHANGED JsonTicks /\ UNCHANGED InfoOffers
  BY <1>1 DEF JsonTicks, InfoOffers
<1>5. UNCHANGED MainOffers /\ UNCHANGED ErrorOffers
  BY <1>1, <1>3 DEF MainOffers, ErrorOffers
<1>6. UNCHANGED Current
  BY <1>1, <1>4, <1>5 DEF Current, JsonOffers
<1> QED
  BY <1>2, <1>6

LEMMA BatchTypes ==
  ASSUME JsonTypeOK, Batch
  PROVE  json_handled' \in 0..MaxPresses /\ json_handled' # 0 /\ json_drawn' \subseteq JsonMessages
BY BoundsAreNat DEF JsonTypeOK, Batch

LEMMA JsonSteps ==
  ASSUME JInv, [JsonNext]_jsonVars
  PROVE  JInv'
<1>0. PageInv /\ JsonTypeOK /\ PressesArePrepared
  BY DEF JInv
<1>1. CASE UNCHANGED jsonVars
  <2>1. UNCHANGED pageVars /\ UNCHANGED <<json_drawn, json_handled, outdated, json_panicked>>
    BY <1>1 DEF jsonVars
  <2>2. PageInv' /\ UNCHANGED Current
    BY <1>0, <2>1, PageUnchanged
  <2> QED
    BY <1>0, <2>1, <2>2 DEF JInv, JsonTypeOK, PageInv, PressesArePrepared
<1>2. ASSUME Press PROVE JInv'
  <2>1. PICK msg \in json_drawn :
          /\ JsonUpdate(msg) /\ json_panicked' = JsonPanics(msg)
          /\ outdated' = (outdated \/ msg \notin Current)
    BY <1>2 DEF Press
  <2>2. msg \in JsonMessages /\ (msg \in Current \/ outdated')
    BY <1>0, <2>1 DEF JsonTypeOK
  <2>3. PageInv'
    BY <1>0, <2>1, <2>2, PressKeeps
  <2>4. outdated' \in BOOLEAN /\ json_panicked' \in BOOLEAN /\ (json_panicked' => outdated')
    <3>1. outdated' \in BOOLEAN
      BY <1>0, <2>1 DEF JsonTypeOK
    <3>2. json_panicked' \in BOOLEAN
      BY <2>1 DEF JsonPanics
    <3>3. json_panicked' => outdated'
      BY <1>0, <2>1, <2>2, OffersPrepared DEF PageInv
    <3> QED
      BY <3>1, <3>2, <3>3
  <2>5. json_handled' \in 0..MaxPresses /\ json_handled' # 0 /\ json_drawn' \subseteq JsonMessages
    BY <1>0, <1>2, BatchTypes DEF Press
  <2> QED
    BY <2>3, <2>4, <2>5 DEF JInv, PageInv, JsonTypeOK, PressesArePrepared
<1>3. ASSUME Deliver PROVE JInv'
  <2>1. UNCHANGED <<outdated, json_panicked>> /\ Batch
    BY <1>3 DEF Deliver
  <2>2. PageInv'
    BY <1>0, <1>3, DeliverKeeps
  <2>3. json_handled' \in 0..MaxPresses /\ json_handled' # 0 /\ json_drawn' \subseteq JsonMessages
    BY <1>0, <2>1, BatchTypes
  <2> QED
    BY <1>0, <2>1, <2>2, <2>3 DEF JInv, PageInv, JsonTypeOK, PressesArePrepared
<1>4. ASSUME Redraw PROVE JInv'
  <2>1. /\ json_handled' = 0 /\ json_drawn' = Current
        /\ UNCHANGED <<pageVars, outdated, json_panicked>>
    BY <1>4 DEF Redraw
  <2>2. PageInv' /\ UNCHANGED Current
    BY <1>0, <2>1, PageUnchanged
  <2>3. 0 \in 0..MaxPresses /\ Current \subseteq JsonMessages
    BY <1>0, BoundsAreNat, ViewTyped DEF JsonTypeOK
  <2> QED
    BY <1>0, <2>1, <2>2, <2>3 DEF JInv, PageInv, JsonTypeOK, PressesArePrepared
<1> QED
  BY <1>1, <1>2, <1>3, <1>4 DEF JsonNext

(* Whatever is typed, switched, read and posted, whatever overtakes what,  *)
(* and whichever view a press was meant for: the page of a JSON session    *)
(* shows the variant's services and the codes last read, its graph can be  *)
(* stopped, and only a press that the page would no longer offer meets     *)
(* what is not there; for every ECU file and every number of codes.        *)
THEOREM SessionPageHolds == JsonSpec => []SessionPageFits
<1>1. JsonInit => JInv
  BY JsonStarts
<1>2. JInv /\ [JsonNext]_jsonVars => JInv'
  BY JsonSteps
<1>3. JInv => SessionPageFits
  BY DEF JInv, PageInv, ServicesFit, SessionPageFits
<1> QED
  BY <1>1, <1>2, <1>3, PTL DEF JsonSpec
-----------------------------------------------------------------------------
(* The main window.                                                        *)
FormType ==
  [loaded : {"nothing", "car", "ecu"}, ecu : BOOLEAN, connections : JsonEcus \cup {<<>>},
   connection : Nat, fields : BOOLEAN]
FormFits(f) == f \in FormType /\ f.connection \in {0} \cup DOMAIN f.connections

WindowFits ==
  /\ page \in {"launcher", "home", "tracer", "obd", "diag", "scanner", "manual", "session", "json"}
  /\ FormFits(form) /\ server \in {"none", "running", "stopped"}
  /\ ending \in Nat /\ orphans \in Nat /\ open \subseteq {"can", "iso"}
  /\ is_connected \in BOOLEAN /\ show_home \in BOOLEAN
  /\ close_failed \in BOOLEAN /\ panicked \in BOOLEAN

(* A page that holds a server is one of those that can; so none starts     *)
(* with the server of the page before.                                     *)
ServersHavePages == server # "none" => page \in {"obd", "session", "json"}

Owned == NoInterfacesAtHome /\ HomeHiddenInSession /\ TracerPollsOpenCan /\ ServersHavePages

(* What the view offers still holds until a first message is handled:      *)
(* threads that stop meanwhile take nothing of it back.                    *)
DrawnHolds ==
  handled = 0 =>
    /\ "ConnectECU" \in drawn => server # "running"
    /\ "ReadCodes" \in drawn => server # "none"
    /\ "LaunchSessionCustom" \in drawn => form.fields

WInv ==
  /\ WindowFits /\ Owned /\ DrawnHolds
  /\ WindowsTypeOK /\ NoOrphanUnlessCrowded /\ PanicsOnlyCrowded

LEMMA FormsFit ==
  ASSUME FormFits(form)
  PROVE  /\ FormFits(NoForm)
         /\ FormFits([NoForm EXCEPT !.loaded = "car", !.fields = form.fields])
         /\ \A connections \in JsonEcus : FormFits(EcuForm(connections))
         /\ FormFits([form EXCEPT !.ecu = TRUE])
         /\ \A parse \in BOOLEAN : FormFits([form EXCEPT !.fields = parse])
         /\ \A i \in {0} \cup DOMAIN form.connections :
              FormFits([form EXCEPT !.connection = i])
<1>0. form \in FormType /\ \A c \in JsonEcus \cup {<<>>} : c \in Seq({"ISOTP", "LIN"})
  BY WindowsAssumption, EmptySeq DEF FormFits
<1>1. NoForm \in FormType
  BY DEF NoForm, FormType
<1>2. FormFits(NoForm)
  BY <1>1 DEF NoForm, FormFits
<1>3. FormFits([NoForm EXCEPT !.loaded = "car", !.fields = form.fields])
  <2> DEFINE fields == form.fields
             f == [NoForm EXCEPT !.loaded = "car", !.fields = fields]
  <2>1. fields \in BOOLEAN
    BY <1>0 DEF FormType
  <2> HIDE DEF fields
  <2>2. f \in FormType
    BY <1>1, <2>1 DEF FormType
  <2>3. f.connection = 0
    BY DEF NoForm
  <2>4. FormFits(f)
    BY <2>2, <2>3 DEF FormFits
  <2> QED
    BY <2>4 DEF fields
<1>4. ASSUME NEW connections \in JsonEcus
      PROVE  FormFits(EcuForm(connections))
  <2> DEFINE first == IF Len(connections) = 1 THEN 1 ELSE 0
             f == [form EXCEPT !.loaded = "ecu", !.ecu = FALSE, !.connections = connections,
                               !.connection = first]
  <2>1. first \in {0} \cup DOMAIN connections /\ first \in Nat
    BY <1>0
  <2> HIDE DEF first
  <2>2. f \in FormType
    BY <1>0, <2>1 DEF FormType
  <2>3. f.connection = first /\ f.connections = connections
    BY <1>0 DEF FormType
  <2>4. FormFits(f)
    BY <2>1, <2>2, <2>3 DEF FormFits
  <2> QED
    BY <2>4 DEF EcuForm, first
<1>5. FormFits([form EXCEPT !.ecu = TRUE])
  <2> DEFINE f == [form EXCEPT !.ecu = TRUE]
  <2>1. f \in FormType
    BY <1>0 DEF FormType
  <2>2. f.connection = form.connection /\ f.connections = form.connections
    BY <1>0 DEF FormType
  <2> QED
    BY <2>1, <2>2 DEF FormFits
<1>6. ASSUME NEW parse \in BOOLEAN
      PROVE  FormFits([form EXCEPT !.fields = parse])
  <2> DEFINE f == [form EXCEPT !.fields = parse]
  <2>1. f \in FormType
    BY <1>0 DEF FormType
  <2>2. f.connection = form.connection /\ f.connections = form.connections
    BY <1>0 DEF FormType
  <2> QED
    BY <2>1, <2>2 DEF FormFits
<1>7. ASSUME NEW i \in {0} \cup DOMAIN form.connections
      PROVE  FormFits([form EXCEPT !.connection = i])
  <2> DEFINE f == [form EXCEPT !.connection = i]
  <2>1. form.connections \in Seq({"ISOTP", "LIN"})
    BY <1>0 DEF FormType
  <2>2. i \in Nat
    BY <2>1
  <2>3. f \in FormType
    BY <1>0, <2>2 DEF FormType
  <2>4. f.connection = i /\ f.connections = form.connections
    BY <1>0 DEF FormType
  <2> QED
    BY <2>3, <2>4 DEF FormFits
<1> QED
  BY <1>2, <1>3, <1>4, <1>5, <1>6, <1>7

(* What a handled message does to what is held and open.  Kept(m): nobody  *)
(* loses a running server but by connecting again, and nothing is unwrapped*)
(* in vain but with the two messages whose button shows what they need.    *)
Kept(m) ==
  /\ orphans' > 0 => orphans > 0 \/ (m = "ConnectECU" /\ server = "running")
  /\ panicked' => \/ panicked
                  \/ m = "ReadCodes" /\ server = "none"
                  \/ m = "LaunchSessionCustom" /\ ~form.fields

Fits(m) == WindowFits' /\ Owned' /\ Kept(m)

\* The parts of WindowFits, each shown by itself.
LEMMA PartsFit ==
  ASSUME page' \in {"launcher", "home", "tracer", "obd", "diag", "scanner", "manual",
                    "session", "json"},
         FormFits(form'), server' \in {"none", "running", "stopped"},
         ending' \in Nat, orphans' \in Nat, open' \subseteq {"can", "iso"},
         is_connected' \in BOOLEAN, show_home' \in BOOLEAN,
         close_failed' \in BOOLEAN, panicked' \in BOOLEAN
  PROVE  WindowFits'
BY Zenon DEF WindowFits

LEMMA LeavingFits ==
  ASSUME WindowFits, Owned, NEW m,
         GoHome \/ \E target \in {"tracer", "diag", "obd"} : GoTo(target)
  PROVE  Fits(m)
<1>1. FormFits(NoForm)
  BY FormsFit DEF WindowFits
<1>2. CASE GoHome
  <2>1. /\ page' = "home" /\ form' = NoForm /\ server' = "none" /\ is_connected' = FALSE
        /\ UNCHANGED <<orphans, show_home, panicked>>
        /\ ending' = ending + IF server = "running" THEN 1 ELSE 0
    BY <1>2 DEF GoHome, Release
  <2>2. open' \subseteq open /\ close_failed' \in BOOLEAN /\ (close_failed' \/ open' = {})
    BY <1>2 DEF GoHome, CloseAll, WindowFits
  <2>3. WindowFits'
    <3>1. ending' \in Nat
      BY <2>1 DEF WindowFits
    <3>2. open' \subseteq {"can", "iso"} /\ orphans' \in Nat
      BY <2>1, <2>2 DEF WindowFits
    <3>3. show_home' \in BOOLEAN /\ panicked' \in BOOLEAN /\ is_connected' \in BOOLEAN
      BY <2>1, Zenon DEF WindowFits
    <3> QED
      BY <1>1, <2>1, <2>2, <3>1, <3>2, <3>3, PartsFit
  <2>4. Owned'
    BY <2>1, <2>2 DEF Owned, NoInterfacesAtHome, HomeHiddenInSession, TracerPollsOpenCan,
                      ServersHavePages
  <2> QED
    BY <2>1, <2>3, <2>4 DEF Fits, Kept
<1>3. ASSUME NEW target \in {"tracer", "diag", "obd"}, GoTo(target)
      PROVE  Fits(m)
  <2>1. /\ page' = target /\ form' = NoForm /\ server' = "none" /\ is_connected' = FALSE
        /\ UNCHANGED <<orphans, open, close_failed, show_home, panicked>>
        /\ ending' = ending + IF server = "running" THEN 1 ELSE 0
    BY <1>3 DEF GoTo, Release
  <2>2. WindowFits'
    <3>1. ending' \in Nat
      BY <2>1 DEF WindowFits
    <3>2. open' \subseteq {"can", "iso"} /\ orphans' \in Nat
      BY <2>1 DEF WindowFits
    <3>3. /\ show_home' \in BOOLEAN /\ panicked' \in BOOLEAN /\ is_connected' \in BOOLEAN
          /\ close_failed' \in BOOLEAN
      BY <2>1, Zenon DEF WindowFits
    <3> QED
      BY <1>1, <2>1, <3>1, <3>2, <3>3, PartsFit
  <2>3. Owned'
    BY <2>1 DEF Owned, NoInterfacesAtHome, HomeHiddenInSession, TracerPollsOpenCan,
                ServersHavePages
  <2> QED
    BY <2>1, <2>2, <2>3 DEF Fits, Kept
<1> QED
  BY <1>2, <1>3

LEMMA TracerFits ==
  ASSUME WindowFits, Owned, page = "tracer", NEW m, ToggleCan \/ ToggleExt
  PROVE  Fits(m)
<1>1. UNCHANGED <<page, form, show_home, panicked, server, ending, orphans>>
  BY DEF ToggleCan, ToggleExt, KeepThreads
<1>2. \/ Opened \/ NotOpened \/ CloseCan
      \/ UNCHANGED is_connected /\ open' = open /\ close_failed' = TRUE
  BY DEF ToggleCan, ToggleExt
<1>3. /\ open' \subseteq {"can", "iso"} /\ is_connected' \in BOOLEAN /\ close_failed' \in BOOLEAN
      /\ is_connected' /\ ~close_failed' => "can" \in open'
  <2>0. /\ open \subseteq {"can", "iso"} /\ is_connected \in BOOLEAN /\ close_failed \in BOOLEAN
        /\ is_connected /\ ~close_failed => "can" \in open
    BY DEF WindowFits, Owned, TracerPollsOpenCan
  <2>1. CASE Opened
    BY <2>0, <2>1 DEF Opened
  <2>2. CASE NotOpened
    BY <2>0, <2>2 DEF NotOpened
  <2>4. CASE UNCHANGED is_connected /\ open' = open /\ close_failed' = TRUE
    <3>1. is_connected' \in BOOLEAN /\ close_failed' \in BOOLEAN
      BY <2>0, <2>4, Zenon
    <3> QED
      BY <2>0, <2>4, <3>1
  <2>3. CASE CloseCan
    <3>1. \/ open' = open \ {"can"} /\ UNCHANGED close_failed
          \/ open' = open /\ close_failed' = TRUE
      BY <2>3 DEF CloseCan, Close
    <3>2. is_connected' = (is_connected /\ open' = open)
      BY <2>3 DEF CloseCan
    <3>3. is_connected' \in BOOLEAN
      BY <3>2, Zenon
    <3>4. open' \subseteq {"can", "iso"} /\ close_failed' \in BOOLEAN
      BY <2>0, <3>1
    <3>5. ASSUME is_connected', ~close_failed' PROVE "can" \in open'
      <4>1. is_connected /\ open' = open
        BY <3>2, <3>5, Zenon
      <4> QED
        BY <2>0, <3>1, <3>5, <4>1
    <3> QED
      BY <3>3, <3>4, <3>5
  <2> QED
    BY <1>2, <2>1, <2>2, <2>3, <2>4
<1>4. WindowFits'
  BY <1>1, <1>3 DEF WindowFits
<1>5. Owned'
  BY <1>1, <1>3 DEF Owned, NoInterfacesAtHome, HomeHiddenInSession, TracerPollsOpenCan,
                    ServersHavePages
<1> QED
  BY <1>1, <1>4, <1>5 DEF Fits, Kept

(* Pages other than the first and the tracer's.                            *)
LEMMA HeldFits ==
  ASSUME WindowFits, NEW m,
         page' \in {"obd", "diag", "scanner", "manual", "session", "json"},
         FormFits(form'), server' \in {"none", "running", "stopped"},
         ending' \in Nat, orphans' \in Nat, open' \subseteq {"can", "iso"},
         UNCHANGED <<is_connected, close_failed>>,
         show_home' \in BOOLEAN, panicked' \in BOOLEAN,
         page' = "session" /\ server' = "running" => ~show_home',
         server' # "none" => page' \in {"obd", "session", "json"},
         Kept(m)
  PROVE  Fits(m)
<1>1. is_connected' \in BOOLEAN /\ close_failed' \in BOOLEAN
  BY Zenon DEF WindowFits
<1>2. WindowFits'
  BY <1>1, PartsFit
<1>3. Owned'
  BY DEF Owned, NoInterfacesAtHome, HomeHiddenInSession, TracerPollsOpenCan, ServersHavePages
<1> QED
  BY <1>2, <1>3 DEF Fits

LEMMA StartedFits ==
  ASSUME WindowFits, NEW dropping \in BOOLEAN, Started(dropping)
  PROVE  /\ server' = "running" /\ ending' \in Nat /\ orphans' \in Nat
         /\ open' \subseteq {"can", "iso"}
         /\ dropping \/ server # "running" => orphans' = orphans
<1> DEFINE former == IF server = "running" THEN 1 ELSE 0
<1>1. former \in Nat /\ (server # "running" => former = 0)
  OBVIOUS
<1>2. ending \in Nat /\ orphans \in Nat /\ open \subseteq {"can", "iso"}
  BY DEF WindowFits
<1>3. /\ server' = "running" /\ open' = open \cup {"iso"}
      /\ ending' = ending + (IF dropping THEN former ELSE 0)
      /\ orphans' = orphans + (IF dropping THEN 0 ELSE former)
  BY DEF Started
<1> HIDE DEF former
<1> QED
  BY <1>1, <1>2, <1>3

LEMMA WindowParts ==
  ASSUME WindowFits
  PROVE  /\ FormFits(form) /\ server \in {"none", "running", "stopped"}
         /\ ending \in Nat /\ orphans \in Nat /\ open \subseteq {"can", "iso"}
         /\ show_home \in BOOLEAN /\ panicked \in BOOLEAN
BY Zenon DEF WindowFits

LEMMA RefusedFits ==
  ASSUME WindowFits, Refused \/ RefusedEarly
  PROVE  /\ UNCHANGED <<server, orphans>> /\ ending' \in Nat /\ open' \subseteq {"can", "iso"}
<1>1. CASE RefusedEarly
  BY <1>1, WindowParts DEF RefusedEarly, KeepThreads
<1>2. CASE open' = open \cup {"iso"} /\ ending' = ending + 1 /\ UNCHANGED <<server, orphans>>
  BY <1>2, WindowParts
<1> QED
  BY <1>1, <1>2 DEF Refused

LEMMA ReleaseFits ==
  ASSUME WindowFits, Release
  PROVE  server' = "none" /\ ending' \in Nat /\ orphans' = orphans /\ orphans' \in Nat
BY DEF WindowFits, Release

LEMMA ObdFits ==
  ASSUME WindowFits, Owned, page = "obd", NEW m,
         InitIsoTP \/ Disconnect \/ (m = "ReadCodes" /\ ReadCodes)
  PROVE  Fits(m)
<1>1. CASE InitIsoTP
  <2>1. UNCHANGED <<page, form, show_home, panicked, is_connected, close_failed>>
    BY <1>1 DEF InitIsoTP
  <2>2. /\ server' \in {"none", "running", "stopped"} /\ ending' \in Nat
        /\ open' \subseteq {"can", "iso"} /\ orphans' = orphans
    <3>1. CASE Started(TRUE)
      BY <3>1, StartedFits
    <3>2. CASE RefusedEarly
      BY <3>2, RefusedFits, WindowParts
    <3> QED
      BY <1>1, <3>1, <3>2 DEF InitIsoTP
  <2>3. Kept(m)
    BY <2>1, <2>2 DEF Kept
  <2> QED
    BY <2>1, <2>2, <2>3, HeldFits, WindowParts
<1>2. CASE Disconnect
  <2>1. /\ UNCHANGED <<page, form, show_home, panicked, open, is_connected, close_failed>>
        /\ Release
    BY <1>2 DEF Disconnect, KeepAdapter
  <2>2. Kept(m)
    BY <2>1, ReleaseFits DEF Kept
  <2> QED
    BY <2>1, <2>2, ReleaseFits, HeldFits, WindowParts
<1>3. CASE m = "ReadCodes" /\ ReadCodes
  <2>1. UNCHANGED <<page, form, show_home, server, ending, orphans, open, is_connected, close_failed>>
    BY <1>3 DEF ReadCodes, KeepThreads, KeepAdapter
  <2>2. panicked' = (server = "none")
    BY <1>3 DEF ReadCodes
  <2>3. panicked' \in BOOLEAN /\ (panicked' => server = "none")
    BY <2>2, Zenon
  <2>4. Kept(m)
    BY <1>3, <2>1, <2>3 DEF Kept
  <2> QED
    BY <2>1, <2>3, <2>4, HeldFits, WindowParts
<1> QED
  BY <1>1, <1>2, <1>3

LEMMA DiagFits ==
  ASSUME WindowFits, Owned, NEW m,
         \/ page \in {"diag", "scanner", "manual"}
              /\ \E target \in {"scanner", "manual"} : LaunchDiag(target)
         \/ page = "scanner" /\ Scan
  PROVE  Fits(m)
<1>1. ASSUME page \in {"diag", "scanner", "manual"}, NEW target \in {"scanner", "manual"},
             LaunchDiag(target)
      PROVE  Fits(m)
  <2>1. /\ page' \in {"diag", "scanner", "manual"}
        /\ UNCHANGED <<form, show_home, panicked, server, ending, orphans, open,
                       is_connected, close_failed>>
    BY <1>1 DEF LaunchDiag, KeepThreads, KeepAdapter
  <2>2. server = "none"
    BY <1>1 DEF Owned, ServersHavePages
  <2>3. Kept(m)
    BY <2>1 DEF Kept
  <2> QED
    BY <2>1, <2>2, <2>3, HeldFits, WindowParts
<1>2. CASE page = "scanner" /\ Scan
  <2>1. /\ UNCHANGED <<page, form, show_home, panicked, server, ending, orphans,
                       is_connected, close_failed>>
        /\ open' \subseteq {"can", "iso"}
    BY <1>2 DEF Scan, KeepThreads
  <2>2. server = "none"
    BY <1>2 DEF Owned, ServersHavePages
  <2>3. Kept(m)
    BY <2>1 DEF Kept
  <2> QED
    BY <1>2, <2>1, <2>2, <2>3, HeldFits, WindowParts
<1> QED
  BY <1>1, <1>2

\* A JSON session is launched from the manual page, or it is not.
LEMMA JsonFits ==
  ASSUME WindowFits, Owned, page \in {"manual", "session", "json"}, NEW m, NEW f,
         FormFits(f), Loaded(f), LaunchJson(f) \/ (UNCHANGED <<page, open>> /\ KeepThreads)
  PROVE  Fits(m)
<1>1. /\ FormFits(form') /\ UNCHANGED <<show_home, panicked, is_connected, close_failed>>
      /\ panicked' => panicked
  BY DEF Loaded
<1>2. HomeHiddenInSession /\ ServersHavePages
  BY DEF Owned
<1>3. CASE UNCHANGED <<page, open>> /\ KeepThreads
  <2>1. UNCHANGED <<page, open, server, ending, orphans>>
    BY <1>3 DEF KeepThreads
  <2>2. Kept(m)
    BY <1>1, <2>1 DEF Kept
  <2> QED
    BY <1>1, <1>2, <2>1, <2>2, HeldFits, WindowParts DEF HomeHiddenInSession, ServersHavePages
<1>4. CASE page = "manual" /\ JsonStarted(f)
  <2>1. CASE Refused /\ UNCHANGED page
    <3>1. UNCHANGED <<page, server, orphans>> /\ ending' \in Nat /\ open' \subseteq {"can", "iso"}
      BY <2>1, RefusedFits
    <3>2. Kept(m)
      BY <1>1, <3>1 DEF Kept
    <3> QED
      BY <1>1, <1>2, <1>4, <3>1, <3>2, HeldFits, WindowParts DEF ServersHavePages
  <2>2. CASE page' = "json" /\ Started(TRUE)
    <3>1. /\ server' = "running" /\ orphans' = orphans /\ ending' \in Nat
          /\ open' \subseteq {"can", "iso"}
      BY <2>2, StartedFits
    <3>2. Kept(m)
      BY <1>1, <3>1 DEF Kept
    <3> QED
      BY <1>1, <2>2, <3>1, <3>2, HeldFits, WindowParts
  <2> QED
    BY <1>4, <2>1, <2>2 DEF JsonStarted
<1> QED
  BY <1>3, <1>4 DEF LaunchJson

LEMMA ManualFits ==
  ASSUME WindowFits, Owned, page \in {"manual", "session", "json"}, NEW m,
         \/ LoadFile \/ EnterField \/ PickECU \/ PickConnection \/ LaunchSession \/ LaunchJSON
         \/ m = "LaunchSessionCustom" /\ LaunchSessionCustom
  PROVE  Fits(m)
<1>0. HomeHiddenInSession /\ ServersHavePages /\ FormFits(form)
  BY WindowParts DEF Owned
<1>1. CASE Keep
  <2>1. UNCHANGED <<page, form, show_home, panicked, server, ending, orphans, open,
                    is_connected, close_failed>>
    BY <1>1 DEF Keep, KeepThreads, KeepAdapter
  <2>2. Kept(m)
    BY <2>1 DEF Kept
  <2> QED
    BY <1>0, <2>1, <2>2, HeldFits, WindowParts DEF HomeHiddenInSession, ServersHavePages
<1>2. CASE LoadFile
  <2>1. CASE /\ Loaded([NoForm EXCEPT !.loaded = "car", !.fields = form.fields])
             /\ UNCHANGED <<page, open>> /\ KeepThreads
    BY <1>0, <2>1, FormsFit, JsonFits
  <2>2. ASSUME NEW connections \in JsonEcus, Loaded(EcuForm(connections)),
               \/ LaunchJson(EcuForm(connections))
               \/ UNCHANGED <<page, open>> /\ KeepThreads
        PROVE  Fits(m)
    <3>1. FormFits(EcuForm(connections))
      BY <1>0, FormsFit
    <3> QED
      BY <2>2, <3>1, JsonFits
  <2> QED
    BY <1>1, <1>2, <2>1, <2>2 DEF LoadFile
<1>3. ASSUME NEW f, FormFits(f), FormSet(f)
      PROVE  Fits(m)
  <2>1. /\ form' = f /\ UNCHANGED <<page, show_home, panicked, server, ending, orphans, open,
                                    is_connected, close_failed>>
    BY <1>3 DEF FormSet, KeepThreads, KeepAdapter
  <2>2. Kept(m)
    BY <2>1 DEF Kept
  <2> QED
    BY <1>0, <1>3, <2>1, <2>2, HeldFits, WindowParts DEF HomeHiddenInSession, ServersHavePages
<1>4. CASE EnterField
  BY <1>0, <1>3, <1>4, FormsFit DEF EnterField
<1>5. CASE PickECU
  BY <1>0, <1>3, <1>5, FormsFit DEF PickECU
<1>6. CASE PickConnection
  <2>1. PICK i \in {0} \cup DOMAIN form.connections :
          FormSet([form EXCEPT !.connection = i])
    BY <1>6 DEF PickConnection
  <2>2. FormFits([form EXCEPT !.connection = i])
    BY <1>0, FormsFit
  <2> QED
    BY <1>3, <2>1, <2>2
<1>7. CASE LaunchJSON
  BY <1>0, <1>7, JsonFits DEF LaunchJSON
<1>8. ASSUME /\ page' \in {page, "session"} /\ (page' # page => page = "manual")
             /\ UNCHANGED <<form, show_home, server, ending, orphans, open,
                            is_connected, close_failed>>,
             panicked' \in BOOLEAN, Kept(m)
      PROVE  Fits(m)
  <2>1. page' = "session" /\ server' = "running" => ~show_home'
    BY <1>0, <1>8 DEF HomeHiddenInSession, ServersHavePages
  <2>2. server' # "none" => page' \in {"obd", "session", "json"}
    BY <1>0, <1>8 DEF ServersHavePages
  <2> QED
    BY <1>8, <2>1, <2>2, HeldFits, WindowParts
<1>9. CASE LaunchSession
  <2>1. /\ page' \in {page, "session"} /\ (page' # page => page = "manual")
        /\ UNCHANGED <<form, show_home, panicked, server, ending, orphans, open,
                       is_connected, close_failed>>
    BY <1>9 DEF LaunchSession, KeepThreads, KeepAdapter
  <2>2. Kept(m)
    BY <2>1 DEF Kept
  <2> QED
    BY <1>8, <2>1, <2>2, WindowParts
<1>10. CASE m = "LaunchSessionCustom" /\ LaunchSessionCustom
  <2>1. /\ page' \in {page, "session"} /\ (page' # page => page = "manual")
        /\ UNCHANGED <<form, show_home, server, ending, orphans, open,
                       is_connected, close_failed>>
    BY <1>10 DEF LaunchSessionCustom, KeepThreads, KeepAdapter
  <2>2. panicked' = (page = "manual" /\ ~form.fields)
    BY <1>10 DEF LaunchSessionCustom
  <2>3. panicked' \in BOOLEAN /\ (panicked' => ~form.fields)
    BY <2>2, Zenon
  <2>4. Kept(m)
    BY <1>10, <2>1, <2>3 DEF Kept
  <2> QED
    BY <1>8, <2>1, <2>3, <2>4
<1> QED
  BY <1>2, <1>4, <1>5, <1>6, <1>7, <1>9, <1>10

LEMMA SessionFits ==
  ASSUME WindowFits, Owned, page = "session", NEW m,
         (m = "ConnectECU" /\ ConnectECU) \/ DisconnectECU \/ PollServer \/ Back
  PROVE  Fits(m)
<1>0. HomeHiddenInSession /\ ServersHavePages /\ FormFits(form)
  BY WindowParts DEF Owned
<1>1. CASE m = "ConnectECU" /\ ConnectECU
  <2>1. UNCHANGED <<page, form, panicked, is_connected, close_failed>>
    BY <1>1 DEF ConnectECU
  <2>2. CASE Started(FALSE) /\ show_home' = FALSE
    <3>1. /\ server' = "running" /\ ending' \in Nat /\ orphans' \in Nat
          /\ open' \subseteq {"can", "iso"} /\ (server # "running" => orphans' = orphans)
      BY <2>2, StartedFits
    <3>2. Kept(m)
      BY <1>1, <2>1, <3>1 DEF Kept
    <3>3. show_home' \in BOOLEAN /\ ~show_home'
      BY <2>2, Zenon
    <3> QED
      BY <1>0, <2>1, <3>1, <3>2, <3>3, HeldFits, WindowParts
  <2>3. CASE Refused /\ UNCHANGED show_home
    <3>1. UNCHANGED <<server, orphans>> /\ ending' \in Nat /\ open' \subseteq {"can", "iso"}
      BY <2>3, RefusedFits
    <3>2. Kept(m)
      BY <2>1, <3>1 DEF Kept
    <3> QED
      BY <1>0, <2>1, <2>3, <3>1, <3>2, HeldFits, WindowParts DEF HomeHiddenInSession
  <2> QED
    BY <1>1, <2>2, <2>3 DEF ConnectECU
<1>2. ASSUME page' \in {"session", "manual"}, Release, show_home' \in BOOLEAN,
             UNCHANGED <<form, panicked, open, is_connected, close_failed>>
      PROVE  Fits(m)
  <2>1. server' = "none" /\ ending' \in Nat /\ orphans' = orphans /\ orphans' \in Nat
    BY <1>2, ReleaseFits
  <2>2. Kept(m)
    BY <1>2, <2>1 DEF Kept
  <2> QED
    BY <1>0, <1>2, <2>1, <2>2, HeldFits, WindowParts
<1>3. CASE DisconnectECU
  <2>1. /\ UNCHANGED <<page, form, panicked, open, is_connected, close_failed>>
        /\ Release /\ show_home' = TRUE
    BY <1>3 DEF DisconnectECU, KeepAdapter
  <2>2. show_home' \in BOOLEAN
    BY <2>1, Zenon
  <2> QED
    BY <1>2, <2>1, <2>2
<1>4. CASE Back
  <2>1. /\ page' = "manual" /\ Release
        /\ UNCHANGED <<form, show_home, panicked, open, is_connected, close_failed>>
    BY <1>4 DEF Back, KeepAdapter
  <2> QED
    BY <1>2, <2>1, WindowParts
<1>5. CASE Keep
  <2>1. UNCHANGED <<page, form, show_home, panicked, server, ending, orphans, open,
                    is_connected, close_failed>>
    BY <1>5 DEF Keep, KeepThreads, KeepAdapter
  <2>2. Kept(m)
    BY <2>1 DEF Kept
  <2> QED
    BY <1>0, <2>1, <2>2, HeldFits, WindowParts DEF HomeHiddenInSession
<1>6. CASE PollServer
  BY <1>3, <1>5, <1>6 DEF PollServer
<1> QED
  BY <1>1, <1>3, <1>4, <1>6

LEMMA UpdateFits ==
  ASSUME WindowFits, Owned, NEW m, Update(m)
  PROVE  Fits(m)
<1>1. CASE ~ForPage(m) \/ Keep
  <2>1. Keep
    BY <1>1 DEF Update
  <2>2. UNCHANGED <<page, form, show_home, panicked, server, ending, orphans, open,
                    is_connected, close_failed>>
    BY <2>1 DEF Keep, KeepThreads, KeepAdapter
  <2>3. WindowFits'
    BY <2>2 DEF WindowFits
  <2>4. Owned'
    BY <2>2 DEF Owned, NoInterfacesAtHome, HomeHiddenInSession, TracerPollsOpenCan,
                ServersHavePages
  <2> QED
    BY <2>2, <2>3, <2>4 DEF Fits, Kept
<1>2. CASE ForPage(m)
  <2>1. CASE m \in {"StartApp", "GoHome", "GoCanTracer", "GoUDS", "GoOBD"}
    <3>1. GoHome \/ \E target \in {"tracer", "diag", "obd"} : GoTo(target)
      BY <1>2, <2>1 DEF Update
    <3> QED
      BY <3>1, LeavingFits
  <2>2. CASE m \in {"ToggleCan", "ToggleExt"}
    <3>1. page = "tracer" /\ (ToggleCan \/ ToggleExt)
      BY <1>2, <2>2 DEF Update, ForPage, On
    <3> QED
      BY <3>1, TracerFits
  <2>3. CASE m \in {"InitIsoTP", "Disconnect", "ReadCodes"}
    <3>1. page = "obd" /\ (InitIsoTP \/ Disconnect \/ (m = "ReadCodes" /\ ReadCodes))
      BY <1>2, <2>3 DEF Update, ForPage, On
    <3> QED
      BY <3>1, ObdFits
  <2>4. CASE m \in {"LaunchScan", "LaunchManual"}
    <3>1. /\ page \in {"diag", "scanner", "manual"}
          /\ LaunchDiag("scanner") \/ LaunchDiag("manual")
      BY <1>2, <2>4 DEF Update, ForPage, On
    <3> QED
      BY <3>1, DiagFits
  <2>5. CASE m = "Scan"
    <3>1. page = "scanner" /\ Scan
      BY <1>2, <2>5 DEF Update, ForPage, On
    <3> QED
      BY <3>1, DiagFits
  <2>6. CASE m \in {"LoadFile", "EnterField", "PickECU", "PickConnection", "LaunchSession",
                    "LaunchJSON", "LaunchSessionCustom"}
    <3>1. page \in {"manual", "session", "json"}
      BY <1>2, <2>6 DEF ForPage, On
    <3>2. \/ LoadFile \/ EnterField \/ PickECU \/ PickConnection \/ LaunchSession \/ LaunchJSON
          \/ m = "LaunchSessionCustom" /\ LaunchSessionCustom
      BY <1>2, <2>6 DEF Update
    <3> QED
      BY <3>1, <3>2, ManualFits
  <2>7. CASE m \in {"ConnectECU", "DisconnectECU", "PollServer", "Back"}
    <3>1. page = "session"
      BY <1>2, <2>7 DEF ForPage, On
    <3>2. (m = "ConnectECU" /\ ConnectECU) \/ DisconnectECU \/ PollServer \/ Back
      BY <1>2, <2>7 DEF Update
    <3> QED
      BY <3>1, <3>2, SessionFits
  <2> QED
    BY <1>2, <2>1, <2>2, <2>3, <2>4, <2>5, <2>6, <2>7 DEF ForPage, On
<1> QED
  BY <1>1, <1>2

\* The page and its form keep their types; the rest is counted.
LEMMA TypesFollow ==
  ASSUME WindowFits', ending' \in 0..MaxThreads, orphans' \in 0..MaxThreads,
         handled' \in 0..MaxBatch, crowded' \in BOOLEAN
  PROVE  WindowsTypeOK'
<1>1. FormFits(form')
  BY DEF WindowFits
<1>2. /\ form'.loaded \in {"nothing", "car", "ecu"} /\ form'.connections \in JsonEcus \cup {<<>>}
      /\ form'.connection \in {0} \cup DOMAIN form'.connections
  BY <1>1 DEF FormFits, FormType
<1> QED
  BY <1>2, Zenon DEF WindowFits, WindowsTypeOK

LEMMA HandleKeeps ==
  ASSUME WInv, NEW m \in drawn, Handle(m)
  PROVE  WInv'
<1>1. /\ WindowFits /\ Owned /\ DrawnHolds /\ NoOrphanUnlessCrowded /\ PanicsOnlyCrowded
      /\ handled \in Nat /\ handled \in 0..MaxBatch /\ MaxBatch \in Nat /\ MaxThreads \in Nat
  BY WindowsAssumption DEF WInv, WindowsTypeOK
<1>2. /\ ~panicked /\ Update(m) /\ ending' <= MaxThreads /\ orphans' <= MaxThreads
      /\ handled < MaxBatch /\ handled' = handled + 1 /\ drawn' = drawn
  BY DEF Handle
<1>3. crowded' = (crowded \/ handled > 0)
  BY DEF Handle
<1>4. WindowFits' /\ Owned' /\ Kept(m)
  BY <1>1, <1>2, UpdateFits DEF Fits
<1>5. handled' \in 0..MaxBatch /\ handled' # 0
  BY <1>1, <1>2
<1>6. crowded' \in BOOLEAN
  BY <1>3, Zenon
<1>7. ending' \in Nat /\ orphans' \in Nat
  BY <1>4 DEF WindowFits
<1>8. ending' \in 0..MaxThreads /\ orphans' \in 0..MaxThreads
  BY <1>1, <1>2, <1>7
<1>9. WindowsTypeOK'
  BY <1>4, <1>5, <1>6, <1>8, TypesFollow
<1>10. DrawnHolds'
  BY <1>5 DEF DrawnHolds
<1>11. handled > 0 \/ handled = 0
  BY <1>1
<1>12. NoOrphanUnlessCrowded'
  <2>1. CASE handled > 0
    BY <1>3, <2>1 DEF NoOrphanUnlessCrowded
  <2>2. CASE handled = 0
    <3>1. m = "ConnectECU" => server # "running"
      BY <1>1, <2>2 DEF DrawnHolds
    <3>2. orphans' > 0 => orphans > 0
      BY <1>4, <3>1 DEF Kept
    <3>3. crowded => crowded'
      BY <1>3
    <3> QED
      BY <1>1, <3>2, <3>3 DEF NoOrphanUnlessCrowded
  <2> QED
    BY <1>11, <2>1, <2>2
<1>13. PanicsOnlyCrowded'
  <2>1. CASE handled > 0
    BY <1>3, <2>1 DEF PanicsOnlyCrowded
  <2>2. CASE handled = 0
    <3>1. ~(m = "ReadCodes" /\ server = "none") /\ ~(m = "LaunchSessionCustom" /\ ~form.fields)
      BY <1>1, <2>2 DEF DrawnHolds
    <3>2. ~panicked'
      BY <1>2, <1>4, <3>1 DEF Kept
    <3> QED
      BY <3>2 DEF PanicsOnlyCrowded
  <2> QED
    BY <1>11, <2>1, <2>2
<1> QED
  BY <1>4, <1>9, <1>10, <1>12, <1>13 DEF WInv

\* What a view offers, it offers because it holds.
LEMMA OffersHold ==
  ASSUME WindowFits
  PROVE  /\ "ConnectECU" \in Offers => server # "running"
         /\ "ReadCodes" \in Offers => server # "none"
         /\ "LaunchSessionCustom" \in Offers => form.fields
<1>1. ASSUME NEW m \in {"ConnectECU", "ReadCodes", "LaunchSessionCustom"}, m \in Offers
      PROVE  \/ page = "obd" /\ m \in ObdOffers
             \/ page = "manual" /\ m \in ManualOffers
             \/ page = "session" /\ m \in SessionOffers
  <2>1. m \in PageOffers
    BY <1>1 DEF Offers
  <2>2. page \in {"launcher", "home", "tracer", "obd", "diag", "scanner", "manual", "session", "json"}
    BY DEF WindowFits
  <2>3. CASE page \in {"launcher", "home", "tracer", "diag", "scanner", "json"}
    BY <1>1, <2>1, <2>3 DEF PageOffers, HomeOffers, TracerOffers, DiagOffers
  <2>4. CASE page = "obd"
    BY <2>1, <2>4 DEF PageOffers
  <2>5. CASE page = "manual"
    BY <2>1, <2>5 DEF PageOffers
  <2>6. CASE page = "session"
    BY <1>1, <2>1, <2>6 DEF PageOffers, SessionTicks
  <2> QED
    BY <2>2, <2>3, <2>4, <2>5, <2>6
<1>2. ASSUME "ConnectECU" \in Offers PROVE server # "running"
  BY <1>1, <1>2 DEF ObdOffers, ManualOffers, SessionOffers
<1>3. ASSUME "ReadCodes" \in Offers PROVE server # "none"
  BY <1>1, <1>3 DEF ObdOffers, ManualOffers, SessionOffers
<1>4. ASSUME "LaunchSessionCustom" \in Offers PROVE form.fields
  BY <1>1, <1>4 DEF ObdOffers, ManualOffers, SessionOffers, CanLaunch
<1> QED
  BY <1>2, <1>3, <1>4

LEMMA DrawKeeps ==
  ASSUME WInv, Draw
  PROVE  WInv'
<1>1. /\ WindowFits /\ Owned /\ WindowsTypeOK /\ NoOrphanUnlessCrowded /\ PanicsOnlyCrowded
      /\ MaxBatch \in Nat
  BY WindowsAssumption DEF WInv
<1>2. /\ UNCHANGED <<page, form, show_home, panicked, server, ending, orphans, open,
                     is_connected, close_failed, crowded>>
      /\ handled' = 0 /\ drawn' = Offers
  BY DEF Draw, Keep, KeepThreads, KeepAdapter
<1>3. WindowFits'
  BY <1>1, <1>2 DEF WindowFits
<1>4. Owned' /\ NoOrphanUnlessCrowded' /\ PanicsOnlyCrowded'
  BY <1>1, <1>2 DEF Owned, NoInterfacesAtHome, HomeHiddenInSession, TracerPollsOpenCan,
                    ServersHavePages, NoOrphanUnlessCrowded, PanicsOnlyCrowded
<1>5. ending' \in 0..MaxThreads /\ orphans' \in 0..MaxThreads /\ handled' \in 0..MaxBatch
  BY <1>1, <1>2 DEF WindowsTypeOK
<1>6. crowded' \in BOOLEAN
  BY <1>1, <1>2, Zenon DEF WindowsTypeOK
<1>7. WindowsTypeOK'
  BY <1>3, <1>5, <1>6, TypesFollow
<1>8. DrawnHolds'
  BY <1>1, <1>2, OffersHold DEF DrawnHolds
<1> QED
  BY <1>3, <1>4, <1>7, <1>8 DEF WInv

\* A thread stops, or ends.
LEMMA ThreadsKeep ==
  ASSUME WInv, StopsItself \/ ThreadEnds
  PROVE  WInv'
<1>1. /\ WindowFits /\ Owned /\ WindowsTypeOK /\ NoOrphanUnlessCrowded /\ PanicsOnlyCrowded
      /\ DrawnHolds /\ MaxThreads \in Nat
      /\ ending \in 0..MaxThreads /\ orphans \in 0..MaxThreads /\ handled \in 0..MaxBatch
  BY WindowsAssumption DEF WInv, WindowsTypeOK
<1>2. /\ UNCHANGED <<page, form, show_home, drawn, handled, crowded, panicked, is_connected>>
      /\ ending' \in 0..MaxThreads /\ orphans' \in 0..MaxThreads /\ orphans' <= orphans
      /\ server' \in {"none", "running", "stopped"} /\ (server' = server \/ server' = "stopped")
      /\ server' = "none" <=> server = "none"
  <2>1. CASE StopsItself
    <3>1. UNCHANGED <<page, form, show_home, drawn, handled, crowded, panicked, is_connected>>
      BY <2>1 DEF StopsItself, KeepAdapter
    <3>2. /\ ending < MaxThreads /\ ending' = ending + 1
          /\ \/ server = "running" /\ server' = "stopped" /\ UNCHANGED orphans
             \/ orphans > 0 /\ orphans' = orphans - 1 /\ UNCHANGED server
      BY <2>1 DEF StopsItself
    <3>3. ending' \in 0..MaxThreads /\ orphans' \in 0..MaxThreads /\ orphans' <= orphans
      BY <1>1, <3>2
    <3> QED
      BY <3>1, <3>2, <3>3, <1>1, WindowParts
  <2>2. CASE ThreadEnds
    <3>1. /\ UNCHANGED <<page, form, show_home, drawn, handled, crowded, panicked, is_connected>>
          /\ UNCHANGED <<server, orphans>> /\ ending > 0 /\ ending' = ending - 1
      BY <2>2 DEF ThreadEnds
    <3>2. ending' \in 0..MaxThreads /\ orphans' <= orphans
      BY <1>1, <3>1
    <3> QED
      BY <1>1, <3>1, <3>2, WindowParts
  <2> QED
    BY <2>1, <2>2
<1>3. \/ open' = open /\ close_failed' = close_failed
      \/ open' = open \ {"iso"} /\ close_failed' = close_failed
      \/ open' = open /\ close_failed' = TRUE
  BY DEF StopsItself, ThreadEnds, KeepAdapter, Close
<1>4. open' \subseteq open /\ close_failed' \in BOOLEAN /\ (close_failed => close_failed')
      /\ ("can" \in open => "can" \in open')
  <2>1. close_failed' \in BOOLEAN
    BY <1>1, <1>3, Zenon DEF WindowFits
  <2> QED
    BY <1>3, <2>1
<1>5. WindowFits'
  <2>1. open' \subseteq {"can", "iso"} /\ ending' \in Nat /\ orphans' \in Nat
    BY <1>1, <1>2, <1>4, WindowParts
  <2>2. is_connected' \in BOOLEAN /\ show_home' \in BOOLEAN /\ panicked' \in BOOLEAN
    BY <1>1, <1>2, Zenon DEF WindowFits
  <2>3. FormFits(form')
    BY <1>1, <1>2, WindowParts
  <2>4. page' \in {"launcher", "home", "tracer", "obd", "diag", "scanner", "manual",
                   "session", "json"}
    BY <1>1, <1>2 DEF WindowFits
  <2> QED
    BY <1>2, <1>4, <2>1, <2>2, <2>3, <2>4, PartsFit
<1>6. Owned'
  <2>1. NoInterfacesAtHome'
    BY <1>1, <1>2, <1>4 DEF Owned, NoInterfacesAtHome
  <2>2. HomeHiddenInSession' /\ ServersHavePages'
    BY <1>1, <1>2 DEF Owned, HomeHiddenInSession, ServersHavePages
  <2>3. TracerPollsOpenCan'
    BY <1>1, <1>2, <1>4 DEF Owned, TracerPollsOpenCan
  <2> QED
    BY <2>1, <2>2, <2>3 DEF Owned
<1>7. WindowsTypeOK'
  <2>1. crowded' \in BOOLEAN
    BY <1>1, <1>2, Zenon DEF WindowsTypeOK
  <2> QED
    BY <1>1, <1>2, <1>5, <2>1, TypesFollow
<1>8. NoOrphanUnlessCrowded' /\ PanicsOnlyCrowded'
  BY <1>1, <1>2 DEF NoOrphanUnlessCrowded, PanicsOnlyCrowded
<1>9. DrawnHolds'
  BY <1>1, <1>2 DEF DrawnHolds
<1> QED
  BY <1>5, <1>6, <1>7, <1>8, <1>9 DEF WInv

LEMMA WindowStarts ==
  ASSUME WindowsInit
  PROVE  WInv
<1>1. /\ page = "launcher" /\ form = NoForm /\ server = "none" /\ ending = 0 /\ orphans = 0
      /\ open = {} /\ is_connected = FALSE /\ show_home = TRUE /\ drawn = Offers /\ handled = 0
      /\ crowded = FALSE /\ close_failed = FALSE /\ panicked = FALSE
      /\ MaxBatch \in Nat /\ MaxThreads \in Nat
  BY WindowsAssumption DEF WindowsInit
<1>2. NoForm \in FormType /\ NoForm.connection = 0
  BY DEF NoForm, FormType
<1>3. FormFits(form)
  BY <1>1, <1>2 DEF FormFits
<1>4. /\ page \in {"launcher", "home", "tracer", "obd", "diag", "scanner", "manual",
                   "session", "json"}
      /\ server \in {"none", "running", "stopped"} /\ ending \in Nat /\ orphans \in Nat
      /\ ending \in 0..MaxThreads /\ orphans \in 0..MaxThreads /\ handled \in 0..MaxBatch
      /\ open \subseteq {"can", "iso"}
  BY <1>1
<1>5. /\ is_connected \in BOOLEAN /\ show_home \in BOOLEAN /\ crowded \in BOOLEAN
      /\ close_failed \in BOOLEAN /\ panicked \in BOOLEAN
  BY <1>1, Zenon
<1>6. WindowFits
  BY <1>3, <1>4, <1>5, Zenon DEF WindowFits
<1>7. /\ form.loaded \in {"nothing", "car", "ecu"} /\ form.connections \in JsonEcus \cup {<<>>}
      /\ form.connection \in {0} \cup DOMAIN form.connections
  BY <1>3 DEF FormFits, FormType
<1>8. WindowsTypeOK
  BY <1>4, <1>5, <1>7, Zenon DEF WindowsTypeOK
<1>9. Owned
  BY <1>1 DEF Owned, NoInterfacesAtHome, HomeHiddenInSession, TracerPollsOpenCan,
              ServersHavePages
<1>10. NoOrphanUnlessCrowded /\ PanicsOnlyCrowded
  BY <1>1 DEF NoOrphanUnlessCrowded, PanicsOnlyCrowded
<1>11. DrawnHolds
  BY <1>1, <1>6, OffersHold DEF DrawnHolds
<1> QED
  BY <1>6, <1>8, <1>9, <1>10, <1>11 DEF WInv

(* In whatever order pages are visited, buttons pressed and threads end:   *)
(* home has no interface open, a session that talks hides the home button, *)
(* the tracer polls an open interface, and a server nobody holds, or a     *)
(* panic, takes two messages judged against one view; for every set of ECU *)
(* files, every number of messages and of threads.                         *)
THEOREM PageOwnsHolds == WindowsSpec => []PageOwnsWhatRuns
<1>1. WindowsInit => WInv
  BY WindowStarts
<1>2. WInv /\ [WindowsNext]_windowVars => WInv'
  <2> SUFFICES ASSUME WInv, [WindowsNext]_windowVars PROVE WInv'
    OBVIOUS
  <2>1. CASE UNCHANGED windowVars
    BY <2>1 DEF windowVars, WInv, WindowFits, Owned, NoInterfacesAtHome, HomeHiddenInSession,
                TracerPollsOpenCan, ServersHavePages, DrawnHolds, WindowsTypeOK,
                NoOrphanUnlessCrowded, PanicsOnlyCrowded
  <2> QED
    BY <2>1, HandleKeeps, DrawKeeps, ThreadsKeep DEF WindowsNext
<1>3. WInv => PageOwnsWhatRuns
  BY DEF WInv, Owned, PageOwnsWhatRuns
<1> QED
  BY <1>1, <1>2, <1>3, PTL DEF WindowsSpec

(***************************************************************************)
(* The search for ECUs.                                                    *)
(***************************************************************************)
\* What a frame can be, and where an ECU's flow control has got to.
OfTheCar(f) ==
  \/ f.id \in DOMAIN Chatter /\ f.shape = Chatter[f.id]
  \/ \E s \in DOMAIN Ecus : f = FlowControl(Ecus[s])
Waits(s) == FlowControl(Ecus[s]) \in Heard(rx)
Answered(s) == \E k \in DOMAIN stage2_results : Ecus[s] \in Heard(stage2_results[k])
Waiting == {s \in DOMAIN Ecus : Waits(s)}

\* The ECUs stage 2 asks, and those stage 3 has a pair of.
Scannable == {s \in DOMAIN Ecus : s \in 1..LastId - 1 /\ s \notin can_traffic_id_list}
Paired == {stage3_results[j].send_id : j \in DOMAIN stage3_results}

Frame == [id : Nat, shape : Shapes]
Pair == [send_id : Nat, recv_id : Nat]
Support == [send_id : Nat, recv_id : Nat, kwp : BOOLEAN, uds : BOOLEAN]
PairWith(id) == [send_id |-> keys[curr_scan_id], recv_id |-> id]
PairsOf(found) == [i \in DOMAIN found |-> PairWith(found[i])]
PairsAnd(found) == stage3_results \o PairsOf(found)

\* What the variables are; no frame waits that nobody of this car sent.
ScanTyped ==
  /\ network \in Networks /\ unfiltered \in BOOLEAN /\ expired \in BOOLEAN
  /\ curr_stage \in 0..7 /\ curr_scan_id \in Nat
  /\ next \in {"none", "panicked", "ScanPoll", "IncrementStage"}
  /\ can_traffic_id_list \subseteq DOMAIN Chatter \cup {ObdId}
  /\ IsFiniteSet(can_traffic_id_list)
  /\ stage2_results \in [DOMAIN stage2_results -> Seq(Nat) \ {<<>>}]
  /\ DOMAIN stage2_results \subseteq 1..LastId - 1
  /\ stage3_results \in Seq(Pair)
  /\ stage4_results \in Seq(Support)
  /\ keys \in Seq(DOMAIN stage2_results)
  /\ rx \in Seq(Frame) /\ \A f \in Heard(rx) : OfTheCar(f)
  /\ bus \subseteq DOMAIN Ecus /\ trouble \subseteq {"late", "again", "unheard", "refused"}

(* The first stages: the filter lets everything pass, the end is reached  *)
(* before stage 3, and no one is noted who was heard when idle.            *)
Searching ==
  /\ curr_stage <= 1 => curr_scan_id = 0 /\ stage2_results = None
  /\ curr_stage = 1 /\ next = "IncrementStage" => expired
  /\ curr_stage = 2 /\ curr_scan_id = 0 => expired
  /\ curr_stage \in {1, 2} => filters = {Anything}
  /\ curr_stage = 2 /\ next = "IncrementStage" => curr_scan_id >= LastId
  /\ curr_stage <= 2 => keys = <<>> /\ curr_scan_id <= LastId + Cardinality(can_traffic_id_list)
  /\ curr_stage >= 2 /\ "unheard" \notin trouble => DOMAIN Chatter \subseteq can_traffic_id_list
  /\ \A k \in DOMAIN stage2_results : \A id \in Heard(stage2_results[k]) : id \notin can_traffic_id_list

(* Stage 3: the keys are a listing of what stage 2 noted, and before the  *)
(* first of them is asked no filter is set.                                *)
Listed ==
  /\ curr_stage >= 3 => keys \in Listings(DOMAIN stage2_results)
  /\ curr_stage = 3 => curr_scan_id <= Len(keys)
  /\ curr_stage = 3 /\ curr_scan_id = 0 => filters = {} /\ (~unfiltered => rx = <<>>)
  /\ curr_stage = 3 /\ next = "IncrementStage" => expired /\ curr_scan_id >= Len(keys)
  /\ curr_stage = 3 /\ next = "none" => curr_scan_id = 0 \/ expired

\* Stages 5 and 6 go through the pairs, in their order.
Tried ==
  /\ curr_stage <= 4 => stage4_results = <<>>
  /\ curr_stage = 4 => curr_scan_id = 0
  /\ curr_stage = 5 =>
       /\ curr_scan_id = Len(stage4_results) /\ curr_scan_id <= Len(stage3_results)
       /\ next = "IncrementStage" => curr_scan_id = Len(stage3_results)
  /\ curr_stage \in {6, 7} =>
       Len(stage4_results) = Len(stage3_results) /\ curr_scan_id <= Len(stage3_results)

(* In stage 2 an ECU has one flow control at most: under way, waiting in  *)
(* the adapter, or noted; and it was asked before.                         *)
AskedOnce ==
  curr_stage <= 2 => \A s \in DOMAIN Ecus :
    /\ s \in bus \/ Waits(s) \/ Answered(s) => s \in 1..curr_scan_id
    /\ Waits(s) \/ Answered(s) => s \notin bus

(* In stage 3 what passes the filter is the flow control of the ECU asked  *)
(* last, even if it was noted of the wrong one.                            *)
OnlyTheAsked ==
  trouble \subseteq {"late"} /\ curr_stage = 3 =>
    /\ \A s \in bus : Answered(s) => ~expired /\ curr_scan_id >= 1 /\ s = keys[curr_scan_id]
    /\ curr_scan_id >= 1 /\ next = "ScanPoll" =>
         /\ filters = {Head(stage2_results[keys[curr_scan_id]])}
         /\ \A f \in Heard(rx) :
              keys[curr_scan_id] \in DOMAIN Ecus /\ f = FlowControl(Ecus[keys[curr_scan_id]])

(* Without trouble every ECU is noted of itself, in the poll that asked it *)
(* or not at all, and none is left out by the time stage 3 begins.         *)
NotedInTime ==
  trouble = {} =>
    /\ \A k \in DOMAIN stage2_results : k \in DOMAIN Ecus /\ Head(stage2_results[k]) = Ecus[k]
    /\ curr_stage = 2 /\ next # "panicked" =>
         /\ \A s \in DOMAIN Ecus : s \in bus \/ Waits(s) => s = curr_scan_id /\ ~expired
         /\ \A s \in Scannable : s <= curr_scan_id =>
              \/ s \in DOMAIN stage2_results
              \/ s = curr_scan_id /\ ~expired /\ (s \in bus \/ Waits(s))
    /\ curr_stage >= 3 => Scannable \subseteq DOMAIN stage2_results

(* Without trouble every ECU noted is paired, before the next is asked.    *)
VerifiedInTime ==
  trouble = {} /\ next # "panicked" =>
    /\ curr_stage = 3 => \A i \in 1..curr_scan_id :
         \/ keys[i] \in Paired
         \/ i = curr_scan_id /\ ~expired /\ keys[i] \in bus \cup Waiting
    /\ curr_stage >= 4 => \A i \in DOMAIN keys : keys[i] \in Paired

\* The inductive invariant.
ScanInv ==
  /\ ScanTyped /\ Searching /\ Listed /\ Tried /\ AskedOnce /\ OnlyTheAsked
  /\ NotedInTime /\ VerifiedInTime
  /\ PairsAreReal /\ SupportIsTheEcus /\ NoPanicWhenFiltered

\* A set of numbers has a least one.
LEMMA NatMin ==
  ASSUME NEW T, T \subseteq Nat, T # {}
  PROVE  \E m \in T : \A n \in T : m <= n
<1>1. PICK x \in T : \A y \in T : ~(<<y, x>> \in OpToRel(<, Nat))
  BY NatLessThanWellFounded, WFMin
<1>2. \A y \in T : ~(y < x)
  BY <1>1 DEF OpToRel
<1> QED
  BY <1>2

\* What a car is.
LEMMA TheCar ==
  ASSUME ScanTyped
  PROVE  /\ Ecus \in [DOMAIN Ecus -> Nat \ (DOMAIN Chatter \cup {ObdId})]
         /\ \A s, t \in DOMAIN Ecus : Ecus[s] = Ecus[t] => s = t
         /\ DOMAIN Ecus \subseteq 0..LastId
         /\ Chatter \in [DOMAIN Chatter -> Shapes] /\ DOMAIN Chatter \subseteq Nat
         /\ LastId \in Nat /\ ObdId \in 1..LastId
         /\ can_traffic_id_list \subseteq Nat
<1>1. network \in Networks /\ can_traffic_id_list \subseteq DOMAIN Chatter \cup {ObdId}
  BY DEF ScanTyped
<1>2. LastId \in Nat /\ ObdId \in 1..LastId
  BY ScannerAssumption
<1>3. \A car \in Networks :
       /\ car.ecus \in [DOMAIN car.ecus -> Nat \ (DOMAIN car.chatter \cup {ObdId})]
       /\ \A s, t \in DOMAIN car.ecus : car.ecus[s] = car.ecus[t] => s = t
       /\ DOMAIN car.ecus \subseteq 0..LastId
       /\ car.chatter \in [DOMAIN car.chatter -> Shapes] /\ DOMAIN car.chatter \subseteq Nat
  BY ScannerAssumption
<1> QED
  BY <1>1, <1>2, <1>3 DEF Ecus, Chatter

\* What is heard in sequences that grow.
LEMMA HeardEmpty == Heard(<<>>) = {}
BY DEF Heard

LEMMA HeardAppend ==
  ASSUME NEW S, NEW s \in Seq(S), NEW e \in S
  PROVE  Heard(Append(s, e)) = Heard(s) \cup {e}
<1>1. Len(Append(s, e)) = Len(s) + 1 /\ Len(s) \in Nat
  OBVIOUS
<1>2. \A i \in 1..Len(s) : Append(s, e)[i] = s[i]
  OBVIOUS
<1>3. Append(s, e)[Len(s) + 1] = e
  OBVIOUS
<1>4. 1..Len(s) + 1 = 1..Len(s) \cup {Len(s) + 1}
  BY <1>1
<1> QED
  BY <1>1, <1>2, <1>3, <1>4 DEF Heard

LEMMA HeardJoin ==
  ASSUME NEW S, NEW s \in Seq(S), NEW t \in Seq(S)
  PROVE  Heard(s \o t) = Heard(s) \cup Heard(t)
<1>1. Len(s \o t) = Len(s) + Len(t) /\ Len(s) \in Nat /\ Len(t) \in Nat
  OBVIOUS
<1>2. \A i \in 1..Len(s) : (s \o t)[i] = s[i] /\ i \in 1..Len(s \o t)
  BY <1>1
<1>3. \A i \in 1..Len(t) : (s \o t)[i + Len(s)] = t[i] /\ i + Len(s) \in 1..Len(s \o t)
  BY <1>1
<1>4. \A i \in 1..Len(s \o t) : i \in 1..Len(s) \/ (i - Len(s) \in 1..Len(t) /\ (s \o t)[i] = t[i - Len(s)])
  BY <1>1
<1>5. Heard(s) \cup Heard(t) \subseteq Heard(s \o t)
  BY <1>2, <1>3 DEF Heard
<1>6. Heard(s \o t) \subseteq Heard(s) \cup Heard(t)
  BY <1>2, <1>4 DEF Heard
<1> QED
  BY <1>5, <1>6

LEMMA HeardIn ==
  ASSUME NEW S, NEW s \in Seq(S)
  PROVE  Heard(s) \subseteq S
BY DEF Heard

\* Listing a finite set.
LEMMA ListingOf ==
  ASSUME NEW S, IsFiniteSet(S), NEW list \in Listings(S)
  PROVE  /\ list \in Seq(S) /\ Len(list) = Cardinality(S)
         /\ \A s \in S : \E i \in DOMAIN list : list[i] = s
<1>1. Cardinality(S) \in Nat
  BY FS_CardinalityType
<1>2. list \in [1..Cardinality(S) -> S] /\ \A s \in S : \E i \in DOMAIN list : list[i] = s
  BY DEF Listings
<1>3. list \in Seq(S)
  BY <1>1, <1>2, SeqDef
<1>4. Len(list) = Cardinality(S)
  BY <1>1, <1>2, <1>3
<1> QED
  BY <1>2, <1>3, <1>4

\* The identifiers found are those of the flow controls looked at.
LEMMA FoundOf ==
  ASSUME NEW places, places \subseteq DOMAIN rx, rx \in Seq(Frame), NEW found \in RecvIds(places)
  PROVE  /\ found \in Seq(Nat)
         /\ Heard(found) = {rx[p].id : p \in {q \in places : rx[q].shape = "fc"}}
<1> DEFINE Fc == {q \in places : rx[q].shape = "fc"}
<1>1. IsFiniteSet(Fc)
  <2>1. Fc \subseteq 1..Len(rx) /\ Len(rx) \in Nat
    OBVIOUS
  <2>2. IsFiniteSet(1..Len(rx))
    BY <2>1, FS_Interval
  <2> QED
    BY <2>1, <2>2, FS_Subset
<1>2. PICK at \in Listings(Fc) : found = [i \in DOMAIN at |-> rx[at[i]].id]
  BY DEF RecvIds
<1>3. /\ at \in Seq(Fc) /\ Len(at) \in Nat /\ DOMAIN at = 1..Len(at)
      /\ \A s \in Fc : \E i \in DOMAIN at : at[i] = s
  <2>1. at \in Seq(Fc) /\ \A s \in Fc : \E i \in DOMAIN at : at[i] = s
    BY <1>1, <1>2, ListingOf
  <2> QED
    BY <2>1
<1>4. \A i \in DOMAIN at : at[i] \in Fc
  BY <1>3
<1>5. \A i \in DOMAIN at : rx[at[i]].id \in Nat
  <2>1. \A p \in Fc : rx[p] \in Frame
    OBVIOUS
  <2>2. \A p \in Fc : rx[p].id \in Nat
    BY <2>1 DEF Frame
  <2> QED
    BY <2>2, <1>4
<1>6. found \in [1..Len(at) -> Nat]
  BY <1>2, <1>3, <1>5
<1>7. found \in Seq(Nat) /\ DOMAIN found = 1..Len(found)
  <2> HIDE DEF Fc
  <2>1. PICK n \in Nat : found \in [1..n -> Nat]
    BY <1>6, <1>3
  <2>2. found \in Seq(Nat)
    BY <2>1, SeqDef
  <2> QED
    BY <2>1
<1>8. Heard(found) = {rx[at[i]].id : i \in DOMAIN at}
  BY <1>2, <1>7 DEF Heard
<1>9. {rx[at[i]].id : i \in DOMAIN at} = {rx[p].id : p \in Fc}
  <2> HIDE DEF Fc
  <2> QED
    BY <1>3, <1>4
<1> QED
  BY <1>7, <1>8, <1>9

\* get_next_canid finds the first free identifier behind the present one.
LEMMA NextFree ==
  ASSUME ScanTyped
  PROVE  /\ NextId \in Nat /\ NextId > curr_scan_id
         /\ NextId <= curr_scan_id + 1 + Cardinality(can_traffic_id_list)
         /\ NextId \notin can_traffic_id_list
         /\ \A m \in Nat : curr_scan_id < m /\ m < NextId => m \in can_traffic_id_list
<1> DEFINE c == Cardinality(can_traffic_id_list)
           Span == curr_scan_id + 1 .. curr_scan_id + 1 + c
           Free == Span \ can_traffic_id_list
<1>1. curr_scan_id \in Nat /\ IsFiniteSet(can_traffic_id_list)
  BY DEF ScanTyped
<1>2. c \in Nat
  BY <1>1, FS_CardinalityType
<1>3. Span \subseteq Nat
  BY <1>1, <1>2
<1>4. Free # {}
  <2> SUFFICES ASSUME Span \subseteq can_traffic_id_list PROVE FALSE
    OBVIOUS
  <2>1. Cardinality(Span) = c + 1
    <3>1. curr_scan_id + 1 \in Int /\ curr_scan_id + 1 + c \in Int
      BY <1>1, <1>2
    <3>2. \A a, b \in Int : Cardinality(a..b) = IF a > b THEN 0 ELSE b - a + 1
      BY FS_Interval
    <3> QED
      BY <3>1, <3>2, <1>1, <1>2
  <2>2. Cardinality(Span) <= c
    BY <1>1, FS_Subset
  <2> QED
    BY <2>1, <2>2, <1>2
<1>5. PICK n \in Free : \A m \in Free : n <= m
  BY <1>3, <1>4, NatMin
<1>6. n \in Span /\ n \notin can_traffic_id_list
  OBVIOUS
<1>7. \A m \in curr_scan_id + 1 .. n - 1 : m \in can_traffic_id_list
  <2> TAKE m \in curr_scan_id + 1 .. n - 1
  <2>1. m \in Span /\ ~(n <= m)
    BY <1>1, <1>2, <1>6
  <2> QED
    BY <2>1, <1>5
<1>8. /\ NextId \in Span /\ NextId \notin can_traffic_id_list
      /\ \A m \in curr_scan_id + 1 .. NextId - 1 : m \in can_traffic_id_list
  BY <1>6, <1>7 DEF NextId
<1> HIDE DEF Free
<1>9. NextId \in Nat /\ NextId > curr_scan_id /\ NextId <= curr_scan_id + 1 + c
  BY <1>8, <1>1, <1>2
<1>10. ASSUME NEW m \in Nat, curr_scan_id < m, m < NextId PROVE m \in can_traffic_id_list
  <2>1. m \in curr_scan_id + 1 .. NextId - 1
    BY <1>10, <1>9, <1>1
  <2> QED
    BY <2>1, <1>8
<1> QED
  BY <1>8, <1>9, <1>10

\* A frame that arrives waits behind the others, or does not pass.
LEMMA Arrives ==
  ASSUME ScanTyped, NEW frame \in Frame, Receive(frame)
  PROVE  /\ rx' \in Seq(Frame) /\ Heard(rx) \subseteq Heard(rx')
         /\ Heard(rx') \subseteq Heard(rx) \cup {frame}
         /\ Passes(frame.id) => frame \in Heard(rx')
         /\ ~Passes(frame.id) => rx' = rx
         /\ UNCHANGED <<scanVars, filters, unfiltered, network, trouble>>
<1>1. rx \in Seq(Frame)
  BY DEF ScanTyped
<1>2. /\ Passes(frame.id) => rx' = Append(rx, frame)
      /\ ~Passes(frame.id) => rx' = rx
  BY DEF Receive
<1>3. Heard(Append(rx, frame)) = Heard(rx) \cup {frame} /\ Append(rx, frame) \in Seq(Frame)
  BY <1>1, HeardAppend
<1>4. UNCHANGED <<scanVars, filters, unfiltered, network, trouble>>
  BY DEF Receive
<1> QED
  BY <1>1, <1>2, <1>3, <1>4

\* What arrives is a flow control that was under way, or chatter.
LEMMA WhatArrives ==
  ASSUME ScanTyped, Answer \/ Chat
  PROVE  \E frame \in Frame :
           /\ Receive(frame) /\ OfTheCar(frame)
           /\ \/ bus' = bus /\ frame.id \in DOMAIN Chatter
              \/ \E s \in bus : frame = FlowControl(Ecus[s]) /\ bus' = bus \ {s}
<1>1. CASE Answer
  <2>1. PICK s \in bus : Receive(FlowControl(Ecus[s])) /\ bus' = bus \ {s}
    BY <1>1 DEF Answer
  <2>2. s \in DOMAIN Ecus /\ Ecus[s] \in Nat
    <3>1. s \in DOMAIN Ecus
      BY DEF ScanTyped
    <3> QED
      BY <3>1, TheCar
  <2>3. FlowControl(Ecus[s]) \in Frame
    BY <2>2 DEF FlowControl, Frame, Shapes
  <2> QED
    BY <2>1, <2>2, <2>3 DEF OfTheCar
<1>2. CASE Chat
  <2>1. PICK c \in DOMAIN Chatter : Receive([id |-> c, shape |-> Chatter[c]]) /\ UNCHANGED bus
    BY <1>2 DEF Chat
  <2>2. c \in Nat /\ Chatter[c] \in Shapes
    BY TheCar
  <2>3. [id |-> c, shape |-> Chatter[c]] \in Frame
    BY <2>2 DEF Frame
  <2> QED
    BY <2>1, <2>2, <2>3 DEF OfTheCar
<1> QED
  BY <1>1, <1>2

\* What is found joins what was noted of the present identifier.
LEMMA NotedOf ==
  ASSUME ScanTyped, NEW found \in Seq(Nat), curr_scan_id \in 1..LastId - 1
  PROVE  /\ DOMAIN Noted(found) = DOMAIN stage2_results \cup IF found = <<>> THEN {} ELSE {curr_scan_id}
         /\ Noted(found) \in [DOMAIN Noted(found) -> Seq(Nat) \ {<<>>}]
         /\ \A k \in DOMAIN stage2_results : Head(Noted(found)[k]) = Head(stage2_results[k])
         /\ \A k \in DOMAIN Noted(found) :
              Heard(Noted(found)[k]) = (IF k \in DOMAIN stage2_results THEN Heard(stage2_results[k]) ELSE {})
                                          \cup (IF k = curr_scan_id THEN Heard(found) ELSE {})
         /\ found # <<>> /\ curr_scan_id \notin DOMAIN stage2_results =>
              Head(Noted(found)[curr_scan_id]) \in Heard(found)
<1> DEFINE D == DOMAIN stage2_results
<1>1. stage2_results \in [D -> Seq(Nat) \ {<<>>}]
  BY DEF ScanTyped
<1>2. CASE found = <<>>
  <2>1. Noted(found) = stage2_results
    BY <1>2 DEF Noted
  <2> QED
    BY <2>1, <1>1, <1>2, HeardEmpty
<1>3. CASE found # <<>>
  <2> DEFINE before(k) == IF k \in D THEN stage2_results[k] ELSE <<>>
             now(k) == IF k = curr_scan_id THEN found ELSE <<>>
             N == Noted(found)
  <2>1. N = [k \in D \cup {curr_scan_id} |-> before(k) \o now(k)]
    BY <1>3 DEF Noted
  <2>2. \A k \in D \cup {curr_scan_id} :
          /\ before(k) \in Seq(Nat) /\ now(k) \in Seq(Nat)
          /\ before(k) # <<>> \/ now(k) # <<>>
    BY <1>1, <1>3
  <2>3. DOMAIN N = D \cup {curr_scan_id} /\ \A k \in D \cup {curr_scan_id} : N[k] = before(k) \o now(k)
    BY <2>1
  <2>4. \A k \in D \cup {curr_scan_id} : before(k) \o now(k) \in Seq(Nat) \ {<<>>}
    <3> TAKE k \in D \cup {curr_scan_id}
    <3>1. before(k) \in Seq(Nat) /\ now(k) \in Seq(Nat) /\ (before(k) # <<>> \/ now(k) # <<>>)
      BY <2>2
    <3> HIDE DEF before, now
    <3> QED
      BY <3>1
  <2>5. N \in [DOMAIN N -> Seq(Nat) \ {<<>>}]
    BY <2>1, <2>3, <2>4
  <2>6. \A k \in D : Head(N[k]) = Head(stage2_results[k])
    <3> TAKE k \in D
    <3>1. N[k] = stage2_results[k] \o now(k)
      BY <2>3
    <3>2. stage2_results[k] \in Seq(Nat) /\ stage2_results[k] # <<>> /\ now(k) \in Seq(Nat)
      BY <1>1, <2>2
    <3> HIDE DEF now, N
    <3> QED
      BY <3>1, <3>2
  <2>7. \A k \in DOMAIN N : Heard(N[k]) = Heard(before(k)) \cup Heard(now(k))
    <3> TAKE k \in DOMAIN N
    <3>1. N[k] = before(k) \o now(k) /\ before(k) \in Seq(Nat) /\ now(k) \in Seq(Nat)
      BY <2>2, <2>3
    <3> HIDE DEF N, before, now
    <3> QED
      BY <3>1, HeardJoin
  <2>8. \A k : /\ Heard(before(k)) = IF k \in D THEN Heard(stage2_results[k]) ELSE {}
               /\ Heard(now(k)) = IF k = curr_scan_id THEN Heard(found) ELSE {}
    BY HeardEmpty
  <2>9. curr_scan_id \notin D => Head(N[curr_scan_id]) \in Heard(found)
    <3> HAVE curr_scan_id \notin D
    <3>1. N[curr_scan_id] = <<>> \o found
      BY <2>3
    <3>2. N[curr_scan_id] = found
      BY <3>1
    <3>3. Head(found) = found[1] /\ 1 \in 1..Len(found)
      BY <1>3
    <3> QED
      BY <3>2, <3>3 DEF Heard
  <2> HIDE DEF N, before, now
  <2>10. \A k \in DOMAIN N :
              Heard(N[k]) = (IF k \in D THEN Heard(stage2_results[k]) ELSE {})
                                          \cup (IF k = curr_scan_id THEN Heard(found) ELSE {})
    BY <2>7, <2>8
  <2>11. DOMAIN N = D \cup IF found = <<>> THEN {} ELSE {curr_scan_id}
    BY <2>3, <1>3
  <2> QED
    BY <2>5, <2>6, <2>9, <2>10, <2>11 DEF N
<1> QED
  BY <1>2, <1>3

\* The car and the kind of adapter stay; frames come in or are thrown away.
LEMMA TheCarStays ==
  ASSUME Next
  PROVE  UNCHANGED <<network, unfiltered>> /\ (Answer \/ Chat \/ rx' = rx \/ rx' = <<>>)
<1>1. CASE Start \/ Increment \/ Elapse
  BY <1>1 DEF Start, Increment, EndListening, BeginVerifying, CoolDown, LaterStage, Elapse, adapterVars
<1>2. CASE Answer \/ Chat
  BY <1>2 DEF Answer, Chat, Receive
<1>3. CASE PollWaiting \/ PollStage2Ends \/ PollStage2Sends \/ PollStage2Listens
  BY <1>3 DEF PollWaiting, PollStage2Ends, PollStage2Sends, PollStage2Listens, adapterVars
<1>4. CASE PollStage3Ends \/ PollStage3Sends \/ PollStage3Listens \/ PollSession
  BY <1>4 DEF PollStage3Ends, PollStage3Sends, PollStage3Listens, PollSession, adapterVars
<1> QED
  BY <1>1, <1>2, <1>3, <1>4 DEF Next, Poll

LEMMA FramesStep ==
  ASSUME ScanTyped, Next
  PROVE  rx' \in Seq(Frame) /\ \A f \in Heard(rx') : OfTheCar(f)'
<1>1. UNCHANGED <<network, unfiltered>> /\ (Answer \/ Chat \/ rx' = rx \/ rx' = <<>>)
  BY TheCarStays
<1>2. rx \in Seq(Frame) /\ \A f \in Heard(rx) : OfTheCar(f)
  BY DEF ScanTyped
<1>3. \A f : OfTheCar(f)' <=> OfTheCar(f)
  BY <1>1 DEF OfTheCar, Ecus, Chatter, FlowControl
<1>4. CASE Answer \/ Chat
  <2>1. PICK frame \in Frame : Receive(frame) /\ OfTheCar(frame)
    BY <1>4, WhatArrives
  <2>2. rx' \in Seq(Frame) /\ Heard(rx') \subseteq Heard(rx) \cup {frame}
    BY <2>1, Arrives
  <2> QED
    BY <2>1, <2>2, <1>2, <1>3
<1>5. CASE rx' = rx
  BY <1>5, <1>2, <1>3
<1>6. CASE rx' = <<>>
  BY <1>6, HeardEmpty
<1> QED
  BY <1>1, <1>4, <1>5, <1>6

\* What the polls of stages 3, 5 and 6 come to.
LEMMA SendsPair ==
  ASSUME PollStage3Sends
  PROVE  /\ curr_stage = 3 /\ next = "ScanPoll" /\ expired /\ ~Verified
         /\ UNCHANGED <<curr_stage, can_traffic_id_list, stage2_results, stage3_results,
                        stage4_results, keys, unfiltered, network>>
         /\ \/ /\ rx' = <<>> /\ expired' = FALSE /\ curr_scan_id' = curr_scan_id + 1 /\ next' = next
               /\ filters' = {Head(stage2_results[keys[curr_scan_id + 1]])} \/ "refused" \in trouble'
               /\ bus' = bus \/ Sent(keys[curr_scan_id + 1])
               /\ (trouble' = trouble /\ Sent(keys[curr_scan_id + 1])) \/ trouble' = trouble \cup {"refused"}
            \/ /\ next' = "panicked" /\ trouble' = trouble \cup {"refused"}
               /\ UNCHANGED <<filters, rx, expired, bus, curr_scan_id>>
BY DEF PollStage3Sends, ScanPoll, Send, CallRefused

LEMMA TriesPair ==
  ASSUME PollSession
  PROVE  /\ curr_stage \in {5, 6} /\ next = "ScanPoll"
         /\ UNCHANGED <<curr_stage, expired, can_traffic_id_list, stage2_results, stage3_results,
                        keys, adapterVars, unfiltered, bus, network, trouble>>
         /\ \/ /\ curr_scan_id >= Len(stage3_results) /\ next' = "IncrementStage"
               /\ UNCHANGED <<curr_scan_id, stage4_results>>
            \/ /\ ~(curr_scan_id >= Len(stage3_results)) /\ curr_scan_id' = curr_scan_id + 1
               /\ \E ok \in BOOLEAN : LET ecu == stage3_results[curr_scan_id + 1] IN
                    /\ ok => ecu.send_id \in IF curr_stage = 5 THEN network.kwp ELSE network.uds
                    /\ \/ /\ curr_stage = 5 /\ next' = next
                          /\ stage4_results' = Append(stage4_results, [send_id |-> ecu.send_id,
                                   recv_id |-> ecu.recv_id, kwp |-> ok, uds |-> FALSE])
                       \/ curr_stage = 6 /\ UNCHANGED <<stage4_results, next>>
                       \/ /\ curr_stage = 6 /\ ok /\ Place \in DOMAIN stage4_results /\ next' = next
                          /\ stage4_results' = [stage4_results EXCEPT ![Place].uds = TRUE]
                       \/ /\ curr_stage = 6 /\ Place \notin DOMAIN stage4_results
                          /\ next' = "panicked" /\ UNCHANGED stage4_results
<1>1. /\ curr_stage \in {5, 6} /\ next = "ScanPoll"
      /\ UNCHANGED <<curr_stage, expired, can_traffic_id_list, stage2_results, stage3_results,
                        keys, adapterVars, unfiltered, bus, network, trouble>>
  BY DEF PollSession, ScanPoll
<1>2. CASE curr_scan_id >= Len(stage3_results)
  BY <1>1, <1>2 DEF PollSession
<1>3. CASE ~(curr_scan_id >= Len(stage3_results))
  <2> DEFINE ecu == stage3_results[curr_scan_id + 1]
  <2>1. PICK ok \in BOOLEAN :
       /\ ok => ecu.send_id \in IF curr_stage = 5 THEN network.kwp ELSE network.uds
       /\ curr_scan_id' = curr_scan_id + 1
       /\ IF curr_stage = 5
          THEN stage4_results' = Append(stage4_results, [send_id |-> ecu.send_id,
                                   recv_id |-> ecu.recv_id, kwp |-> ok, uds |-> FALSE])
               /\ UNCHANGED next
          ELSE IF ~ok THEN UNCHANGED <<stage4_results, next>>
          ELSE IF Place \in DOMAIN stage4_results
          THEN stage4_results' = [stage4_results EXCEPT ![Place].uds = TRUE] /\ UNCHANGED next
          ELSE next' = "panicked" /\ UNCHANGED stage4_results
    BY <1>3 DEF PollSession
  <2> HIDE DEF ecu
  <2>2. /\ ok => ecu.send_id \in IF curr_stage = 5 THEN network.kwp ELSE network.uds
        /\ \/ /\ curr_stage = 5 /\ next' = next
                          /\ stage4_results' = Append(stage4_results, [send_id |-> ecu.send_id,
                                   recv_id |-> ecu.recv_id, kwp |-> ok, uds |-> FALSE])
           \/ curr_stage = 6 /\ UNCHANGED <<stage4_results, next>>
           \/ /\ curr_stage = 6 /\ ok /\ Place \in DOMAIN stage4_results /\ next' = next
              /\ stage4_results' = [stage4_results EXCEPT ![Place].uds = TRUE]
           \/ /\ curr_stage = 6 /\ Place \notin DOMAIN stage4_results
              /\ next' = "panicked" /\ UNCHANGED stage4_results
    BY <2>1, <1>1, Zenon
  <2> QED
    BY <2>1, <2>2, <1>1, <1>3 DEF ecu
<1> QED
  BY <1>2, <1>3

\* What the scan remembers of identifiers, in a step that polls nothing in.
TypedRest ==
  /\ curr_stage \in 0..7 /\ curr_scan_id \in Nat
  /\ next \in {"none", "panicked", "ScanPoll", "IncrementStage"}
  /\ bus \subseteq DOMAIN Ecus /\ trouble \subseteq {"late", "again", "unheard", "refused"}
TypedListed ==
  /\ can_traffic_id_list \subseteq DOMAIN Chatter \cup {ObdId}
  /\ IsFiniteSet(can_traffic_id_list)
TypedNoted ==
  /\ stage2_results \in [DOMAIN stage2_results -> Seq(Nat) \ {<<>>}]
  /\ DOMAIN stage2_results \subseteq 1..LastId - 1
TypedFound ==
  /\ stage3_results \in Seq(Pair)
  /\ stage4_results \in Seq(Support)
  /\ keys \in Seq(DOMAIN stage2_results)

LEMMA ClockStep ==
  ASSUME ScanTyped, Next
  PROVE  expired' \in BOOLEAN
<1>1. expired' = expired \/ expired' = TRUE \/ expired' = FALSE
  <2>1. CASE Start \/ Increment \/ Elapse
    BY <2>1 DEF Start, Stay, Increment, EndListening, BeginVerifying, CoolDown, LaterStage, Elapse
  <2>2. CASE Answer \/ Chat
    BY <2>2 DEF Answer, Chat, Receive, scanVars
  <2>3. CASE PollWaiting \/ PollStage2Ends \/ PollStage2Sends \/ PollStage2Listens \/ PollStage3Ends
    BY <2>3 DEF PollWaiting, PollStage2Ends, PollStage2Sends, PollStage2Listens, PollStage3Ends
  <2>4. CASE PollStage3Sends
    BY <2>4, SendsPair
  <2>5. CASE PollStage3Listens \/ PollSession
    BY <2>5 DEF PollStage3Listens, PollSession
  <2> QED
    BY <2>1, <2>2, <2>3, <2>4, <2>5 DEF Next, Poll
<1>2. expired \in BOOLEAN
  BY DEF ScanTyped
<1> QED
  BY <1>1, <1>2, Zenon

LEMMA TypedRestStep ==
  ASSUME ScanTyped, Next
  PROVE  TypedRest'
<1>1. UNCHANGED <<network, unfiltered>>
  BY TheCarStays
<1>2. Ecus' = Ecus
  BY <1>1 DEF Ecus
<1>3. TypedRest
  BY DEF ScanTyped, TypedRest
<1>4. CASE Start \/ Increment
  <2>1. CASE Start
    BY <1>2, <1>3, <2>1 DEF TypedRest, Start, Stay
  <2>2. CASE EndListening
    BY <1>2, <1>3, <2>2 DEF TypedRest, EndListening, Advance, IncrementStage
  <2>3. CASE BeginVerifying
    BY <1>2, <1>3, <2>3 DEF TypedRest, BeginVerifying, Advance, IncrementStage
  <2>4. CASE CoolDown
    BY <1>2, <1>3, <2>4 DEF TypedRest, CoolDown, Advance, IncrementStage
  <2>5. CASE LaterStage
    BY <1>2, <1>3, <2>5 DEF TypedRest, LaterStage, Advance, IncrementStage
  <2> QED
    BY <1>4, <2>1, <2>2, <2>3, <2>4, <2>5 DEF Increment
<1>5. CASE Elapse
  BY <1>2, <1>3, <1>5 DEF TypedRest, Elapse
<1>6. CASE Answer \/ Chat
  <2>1. PICK frame \in Frame :
           /\ Receive(frame)
           /\ \/ bus' = bus /\ frame.id \in DOMAIN Chatter
              \/ \E s \in bus : frame = FlowControl(Ecus[s]) /\ bus' = bus \ {s}
    BY <1>6, WhatArrives
  <2> QED
    BY <2>1, <1>2, <1>3 DEF TypedRest, Receive, scanVars
<1>7. CASE PollWaiting \/ PollStage2Ends \/ PollStage2Listens \/ PollStage3Ends \/ PollStage3Listens
  BY <1>2, <1>3, <1>7 DEF TypedRest, PollWaiting, PollStage2Ends, PollStage2Listens, PollStage3Ends,
     PollStage3Listens
<1>8. CASE PollStage2Sends
  <2>1. NextId \in Nat
    BY NextFree
  <2>2. bus' \subseteq DOMAIN Ecus /\ trouble' \subseteq {"late", "again", "unheard", "refused"}
    BY <1>3, <1>8 DEF TypedRest, PollStage2Sends, Send, Sent, CallRefused
  <2> QED
    BY <1>2, <1>3, <1>8, <2>1, <2>2 DEF TypedRest, PollStage2Sends
<1>9. CASE PollStage3Sends
  <2>1. /\ curr_stage = 3 /\ UNCHANGED curr_stage
        /\ \/ curr_scan_id' = curr_scan_id + 1 /\ next' = next
           \/ next' = "panicked" /\ UNCHANGED curr_scan_id
    BY <1>9, SendsPair
  <2>2. /\ bus' = bus \/ Sent(keys[curr_scan_id + 1])
        /\ trouble' = trouble \/ trouble' = trouble \cup {"refused"}
    BY <1>9, SendsPair
  <2>3. bus' \subseteq DOMAIN Ecus /\ trouble' \subseteq {"late", "again", "unheard", "refused"}
    BY <1>3, <2>2 DEF TypedRest, Sent
  <2> QED
    BY <1>2, <1>3, <2>1, <2>3 DEF TypedRest
<1>10. CASE PollSession
  <2>1. UNCHANGED <<curr_stage, expired, bus, trouble>>
    BY <1>10, TriesPair
  <2>2. curr_scan_id' \in {curr_scan_id, curr_scan_id + 1} /\ next' \in {next, "IncrementStage", "panicked"}
    BY <1>10, TriesPair
  <2> QED
    BY <1>2, <1>3, <2>1, <2>2 DEF TypedRest
<1> QED
  BY <1>4, <1>5, <1>6, <1>7, <1>8, <1>9, <1>10 DEF Next, Poll

LEMMA TypedListedStep ==
  ASSUME ScanInv, Next
  PROVE  TypedListed'
<1>1. ScanTyped /\ Searching /\ AskedOnce /\ UNCHANGED <<network, unfiltered>>
  BY TheCarStays DEF ScanInv
<1>2. Chatter' = Chatter /\ TypedListed
  BY <1>1 DEF Chatter, ScanTyped, TypedListed
<1>3. CASE Start
  BY <1>2, <1>3, FS_EmptySet DEF Start, Stay, TypedListed
<1>4. CASE EndListening
  <2>1. can_traffic_id_list' = can_traffic_id_list \cup {ObdId}
    BY <1>4 DEF EndListening
  <2> QED
    BY <1>2, <2>1, FS_AddElement DEF TypedListed
<1>5. CASE PollWaiting
  <2>1. CASE can_traffic_id_list' = can_traffic_id_list
    BY <1>2, <2>1 DEF TypedListed
  <2>2. CASE /\ can_traffic_id_list' # can_traffic_id_list
    <3> DEFINE heard == {f.id : f \in Heard(rx)}
    <3>1. curr_stage = 1 /\ can_traffic_id_list' = can_traffic_id_list \cup heard
      BY <1>5, <2>2 DEF PollWaiting, ScanPoll
    <3>2. \A s \in DOMAIN Ecus : ~Waits(s)
      BY <1>1, <3>1 DEF AskedOnce, Searching
    <3>3. \A f \in Heard(rx) : f.id \in DOMAIN Chatter
      BY <1>1, <3>2 DEF ScanTyped, OfTheCar, Waits
    <3>4. IsFiniteSet(heard)
      <4> DEFINE at == [i \in 1..Len(rx) |-> rx[i].id]
      <4>1. IsFiniteSet(1..Len(rx))
        <5>1. Len(rx) \in Nat
          BY <1>1 DEF ScanTyped
        <5> QED
          BY <5>1, FS_Interval
      <4>2. heard = {at[i] : i \in 1..Len(rx)}
        BY DEF Heard
      <4>3. at \in Surjection(1..Len(rx), heard)
        BY <4>2 DEF Surjection
      <4> HIDE DEF at, heard
      <4> QED
        BY <4>1, <4>3, FS_Surjection
    <3>5. IsFiniteSet(can_traffic_id_list \cup heard)
      <4>1. IsFiniteSet(can_traffic_id_list)
        BY <1>2 DEF TypedListed
      <4> QED
        BY <4>1, <3>4, FS_Union
    <3> QED
      BY <1>2, <3>1, <3>3, <3>5 DEF TypedListed
  <2> QED
    BY <2>1, <2>2
<1>6. CASE UNCHANGED can_traffic_id_list
  BY <1>2, <1>6 DEF TypedListed
<1>7. Start \/ EndListening \/ PollWaiting \/ UNCHANGED can_traffic_id_list
  <2>1. CASE Increment \/ Elapse
    BY <2>1 DEF Increment, BeginVerifying, CoolDown, LaterStage, Elapse
  <2>2. CASE Answer \/ Chat
    BY <2>2 DEF Answer, Chat, Receive, scanVars
  <2>3. CASE PollStage2Ends \/ PollStage2Sends \/ PollStage2Listens \/ PollStage3Ends
    BY <2>3 DEF PollStage2Ends, PollStage2Sends, PollStage2Listens, PollStage3Ends
  <2>4. CASE PollStage3Sends
    BY <2>4, SendsPair
  <2>5. CASE PollStage3Listens \/ PollSession
    BY <2>5 DEF PollStage3Listens, PollSession
  <2> QED
    BY <2>1, <2>2, <2>3, <2>4, <2>5 DEF Next, Poll
<1> QED
  BY <1>3, <1>4, <1>5, <1>6, <1>7

\* What stage 2 listens for.
LEMMA Listening ==
  ASSUME ScanInv, PollStage2Listens
  PROVE  /\ curr_stage = 2 /\ next = "ScanPoll" /\ ~expired /\ curr_scan_id \in 1..LastId - 1
         /\ rx' = <<>>
         /\ UNCHANGED <<curr_stage, curr_scan_id, expired, can_traffic_id_list, stage3_results,
                        stage4_results, keys, filters, unfiltered, bus, network, trouble>>
         /\ \/ Panics(NewIds) /\ next' = "panicked" /\ UNCHANGED stage2_results
            \/ /\ ~Panics(NewIds) /\ next' = next
               /\ \E found \in Seq(Nat) :
                    /\ Heard(found) = {rx[p].id : p \in {q \in NewIds : rx[q].shape = "fc"}}
                    /\ stage2_results' = Noted(found)
<1>1. /\ curr_stage = 2 /\ next = "ScanPoll" /\ ~expired /\ ~ScannedAll
      /\ rx' = <<>>
      /\ UNCHANGED <<curr_stage, curr_scan_id, expired, can_traffic_id_list, stage3_results,
                        stage4_results, keys, filters, unfiltered, bus, network, trouble>>
  BY DEF PollStage2Listens, ScanPoll
<1>2. curr_scan_id \in 1..LastId - 1
  <2>1. curr_scan_id \in Nat /\ (curr_stage = 2 /\ curr_scan_id = 0 => expired) /\ LastId \in Nat
    BY ScannerAssumption DEF ScanInv, ScanTyped, Searching
  <2> QED
    BY <1>1, <2>1 DEF ScannedAll
<1>3. CASE Panics(NewIds)
  BY <1>1, <1>2, <1>3 DEF PollStage2Listens
<1>4. CASE ~Panics(NewIds)
  <2>1. next' = next /\ \E found \in RecvIds(NewIds) : stage2_results' = Noted(found)
    BY <1>4 DEF PollStage2Listens
  <2>2. NewIds \subseteq DOMAIN rx /\ rx \in Seq(Frame)
    BY DEF NewIds, Read, ScanInv, ScanTyped
  <2>3. \A found \in RecvIds(NewIds) : /\ found \in Seq(Nat)
            /\ Heard(found) = {rx[p].id : p \in {q \in NewIds : rx[q].shape = "fc"}}
    BY <2>2, FoundOf
  <2> QED
    BY <1>1, <1>2, <1>4, <2>1, <2>3
<1> QED
  BY <1>3, <1>4

\* Only stage 2 notes answers.
LEMMA SearchResultsStay ==
  ASSUME Next
  PROVE  PollStage2Listens \/ UNCHANGED stage2_results
<1>1. CASE Start \/ Increment \/ Elapse
  BY <1>1 DEF Start, Increment, EndListening, BeginVerifying, CoolDown, LaterStage, Elapse
<1>2. CASE Answer \/ Chat
  BY <1>2 DEF Answer, Chat, Receive, scanVars
<1>3. CASE PollWaiting \/ PollStage2Ends \/ PollStage2Sends \/ PollStage3Ends
  BY <1>3 DEF PollWaiting, PollStage2Ends, PollStage2Sends, PollStage3Ends
<1>4. CASE PollStage3Sends
  BY <1>4, SendsPair
<1>5. CASE PollStage3Listens \/ PollSession
  BY <1>5 DEF PollStage3Listens, PollSession
<1> QED
  BY <1>1, <1>2, <1>3, <1>4, <1>5 DEF Next, Poll

LEMMA TypedNotedStep ==
  ASSUME ScanInv, Next
  PROVE  TypedNoted'
<1>1. ScanTyped /\ TypedNoted
  BY DEF ScanInv, ScanTyped, TypedNoted
<1>2. CASE PollStage2Listens
  <2>1. curr_scan_id \in 1..LastId - 1
    BY <1>2, Listening
  <2>2. CASE stage2_results' = stage2_results
    BY <1>1, <2>2 DEF TypedNoted
  <2>3. ASSUME NEW found \in Seq(Nat), stage2_results' = Noted(found)
        PROVE  TypedNoted'
    <3>1. /\ DOMAIN Noted(found) = DOMAIN stage2_results \cup IF found = <<>> THEN {} ELSE {curr_scan_id}
          /\ Noted(found) \in [DOMAIN Noted(found) -> Seq(Nat) \ {<<>>}]
      BY <1>1, <2>1, NotedOf
    <3> QED
      BY <1>1, <2>1, <2>3, <3>1 DEF TypedNoted
  <2> QED
    BY <1>2, <2>2, <2>3, Listening
<1>3. CASE UNCHANGED stage2_results
  BY <1>1, <1>3 DEF TypedNoted
<1>4. PollStage2Listens \/ UNCHANGED stage2_results
  BY SearchResultsStay
<1> QED
  BY <1>2, <1>3, <1>4

\* What stage 3 listens for.
LEMMA Verifying ==
  ASSUME ScanInv, PollStage3Listens
  PROVE  /\ curr_stage = 3 /\ next = "ScanPoll" /\ ~expired /\ rx' = <<>>
         /\ UNCHANGED <<curr_stage, curr_scan_id, expired, can_traffic_id_list, stage2_results,
                        stage4_results, keys, filters, unfiltered, bus, network, trouble>>
         /\ \E found \in Seq(Nat) :
              /\ Heard(found) = {rx[p].id : p \in {q \in DOMAIN rx : rx[q].shape = "fc"}}
              /\ \/ /\ Panics(Read) \/ (found # <<>> /\ curr_scan_id = 0)
                    /\ next' = "panicked" /\ UNCHANGED stage3_results
                 \/ /\ ~Panics(Read) /\ ~(found # <<>> /\ curr_scan_id = 0) /\ next' = next
                    /\ stage3_results' = PairsAnd(found)
<1>1. /\ curr_stage = 3 /\ next = "ScanPoll" /\ ~expired /\ rx' = <<>>
      /\ UNCHANGED <<curr_stage, curr_scan_id, expired, can_traffic_id_list, stage2_results,
                        stage4_results, keys, filters, unfiltered, bus, network, trouble>>
  BY DEF PollStage3Listens, ScanPoll
<1>2. PICK found \in RecvIds(Read) :
        IF Panics(Read) \/ (found # <<>> /\ curr_scan_id = 0)
        THEN next' = "panicked" /\ UNCHANGED stage3_results
        ELSE /\ stage3_results' = stage3_results \o
               [i \in DOMAIN found |-> [send_id |-> keys[curr_scan_id], recv_id |-> found[i]]]
             /\ UNCHANGED next
  BY DEF PollStage3Listens
<1>3. Read \subseteq DOMAIN rx /\ rx \in Seq(Frame)
  BY DEF Read, ScanInv, ScanTyped
<1>4. /\ found \in Seq(Nat)
      /\ Heard(found) = {rx[p].id : p \in {q \in Read : rx[q].shape = "fc"}}
  BY <1>3, FoundOf
<1>5. Heard(found) = {rx[p].id : p \in {q \in DOMAIN rx : rx[q].shape = "fc"}}
  BY <1>4 DEF Read
<1>6. \/ /\ Panics(Read) \/ (found # <<>> /\ curr_scan_id = 0)
         /\ next' = "panicked" /\ UNCHANGED stage3_results
      \/ /\ ~Panics(Read) /\ ~(found # <<>> /\ curr_scan_id = 0) /\ next' = next
         /\ stage3_results' = PairsAnd(found)
  BY <1>2 DEF PairsAnd, PairsOf, PairWith
<1> QED
  BY <1>1, <1>4, <1>5, <1>6

\* The pairs one poll of stage 3 adds.
LEMMA PairsAdded ==
  ASSUME ScanInv, NEW found \in Seq(Nat), curr_stage = 3, found # <<>> => curr_scan_id # 0
  PROVE  /\ PairsAnd(found) \in Seq(Pair)
         /\ \A j \in DOMAIN stage3_results :
              j \in DOMAIN PairsAnd(found) /\ PairsAnd(found)[j] = stage3_results[j]
         /\ \A j \in DOMAIN PairsAnd(found) :
              \/ j \in DOMAIN stage3_results /\ PairsAnd(found)[j] = stage3_results[j]
              \/ \E id \in Heard(found) : PairsAnd(found)[j] = PairWith(id)
         /\ \A id \in Heard(found) : \E j \in DOMAIN PairsAnd(found) : PairsAnd(found)[j] = PairWith(id)
<1> DEFINE new == PairsOf(found)
           all == PairsAnd(found)
           asked == keys[curr_scan_id]
<1>1. found # <<>> => asked \in Nat
  <2> HAVE found # <<>>
  <2>1. /\ keys \in Seq(DOMAIN stage2_results) /\ curr_scan_id \in Nat
        /\ DOMAIN stage2_results \subseteq 1..LastId - 1 /\ curr_scan_id <= Len(keys)
        /\ curr_scan_id # 0
    BY DEF ScanInv, ScanTyped, Listed
  <2>2. curr_scan_id \in 1..Len(keys)
    BY <2>1
  <2>3. asked \in DOMAIN stage2_results
    BY <2>1, <2>2
  <2>4. LastId \in Nat
    BY ScannerAssumption
  <2> QED
    BY <2>1, <2>3, <2>4
<1>2. Len(found) \in Nat /\ DOMAIN found = 1..Len(found) /\ \A i \in DOMAIN found : found[i] \in Nat
  OBVIOUS
<1>3. \A i \in DOMAIN found : found # <<>>
  BY <1>2
<1>4. \A id \in Nat : asked \in Nat => PairWith(id) \in Pair
  BY DEF Pair, PairWith
<1> HIDE DEF asked
<1>5. new = [i \in 1..Len(found) |-> PairWith(found[i])]
  BY <1>2 DEF PairsOf, new
<1>6. \A i \in 1..Len(found) : PairWith(found[i]) \in Pair
  BY <1>1, <1>2, <1>3, <1>4
<1>7. PICK n \in Nat : n = Len(found) /\ new \in [1..n -> Pair]
  BY <1>2, <1>5, <1>6
<1>8. new \in Seq(Pair) /\ Len(new) = Len(found)
  <2>1. new \in Seq(Pair)
    BY <1>7, SeqDef
  <2> QED
    BY <2>1, <1>7
<1>9. \A i \in 1..Len(found) : new[i] = PairWith(found[i])
  BY <1>5
<1>10. stage3_results \in Seq(Pair) /\ all = stage3_results \o new
  BY DEF ScanInv, ScanTyped, new, PairsAnd
<1> HIDE DEF new, all
<1>11. /\ all \in Seq(Pair) /\ Len(all) = Len(stage3_results) + Len(new)
       /\ DOMAIN all = 1..Len(all) /\ DOMAIN stage3_results = 1..Len(stage3_results)
       /\ Len(stage3_results) \in Nat
       /\ \A j \in 1..Len(stage3_results) : all[j] = stage3_results[j]
       /\ \A i \in 1..Len(new) : all[i + Len(stage3_results)] = new[i]
  <2>1. all \in Seq(Pair) /\ Len(all) = Len(stage3_results) + Len(new)
    BY <1>8, <1>10, ConcatProperties
  <2>2. \A j \in 1..Len(stage3_results) : all[j] = stage3_results[j]
    BY <1>8, <1>10
  <2>3. \A i \in 1..Len(new) : all[i + Len(stage3_results)] = new[i]
    <3> TAKE i \in 1..Len(new)
    <3>1. /\ Len(stage3_results) \in Nat /\ Len(new) \in Nat
          /\ i + Len(stage3_results) \in 1..Len(stage3_results) + Len(new)
          /\ ~(i + Len(stage3_results) <= Len(stage3_results))
          /\ (i + Len(stage3_results)) - Len(stage3_results) = i
      BY <1>8, <1>10
    <3>2. \A k \in 1..Len(stage3_results) + Len(new) :
            all[k] = IF k <= Len(stage3_results) THEN stage3_results[k] ELSE new[k - Len(stage3_results)]
      BY <1>8, <1>10, ConcatProperties
    <3> QED
      BY <3>1, <3>2
  <2> QED
    BY <2>1, <2>2, <2>3, <1>10
<1>12. Heard(found) = {found[i] : i \in 1..Len(found)}
  BY DEF Heard
<1>13. \A j \in DOMAIN stage3_results : j \in DOMAIN all /\ all[j] = stage3_results[j]
  BY <1>11, <1>2, <1>8
<1>14. \A id \in Heard(found) : \E j \in DOMAIN all : all[j] = PairWith(id)
  <2> TAKE id \in Heard(found)
  <2>1. PICK i \in 1..Len(found) : id = found[i]
    BY <1>12
  <2>2. i + Len(stage3_results) \in DOMAIN all /\ all[i + Len(stage3_results)] = new[i]
    BY <1>11, <1>2, <1>8
  <2> QED
    BY <2>1, <2>2, <1>9
<1>15. \A j \in DOMAIN all : \/ j \in DOMAIN stage3_results /\ all[j] = stage3_results[j]
                             \/ \E id \in Heard(found) : all[j] = PairWith(id)
  <2> TAKE j \in DOMAIN all
  <2>1. CASE j <= Len(stage3_results)
    BY <2>1, <1>11
  <2>2. CASE ~(j <= Len(stage3_results))
    <3>1. j - Len(stage3_results) \in 1..Len(found)
      BY <2>2, <1>11, <1>8, <1>2
    <3>2. all[(j - Len(stage3_results)) + Len(stage3_results)] = new[j - Len(stage3_results)]
      BY <3>1, <1>11, <1>8
    <3>3. (j - Len(stage3_results)) + Len(stage3_results) = j
      BY <1>11
    <3>4. all[j] = PairWith(found[j - Len(stage3_results)])
      BY <3>1, <3>2, <3>3, <1>9
    <3> QED
      BY <3>1, <3>4, <1>12
  <2> QED
    BY <2>1, <2>2
<1> QED
  BY <1>8, <1>11, <1>13, <1>14, <1>15 DEF all

LEMMA TypedFoundStep ==
  ASSUME ScanInv, Next
  PROVE  TypedFound'
<1>1. ScanTyped /\ TypedFound
  BY DEF ScanInv, ScanTyped, TypedFound
<1>2. CASE PollStage2Listens
  <2>1. curr_stage = 2 /\ UNCHANGED <<stage3_results, stage4_results, keys>>
    BY <1>2, Listening
  <2>2. keys = <<>>
    BY <2>1 DEF ScanInv, Searching
  <2> QED
    BY <1>1, <2>1, <2>2 DEF TypedFound
<1>3. CASE BeginVerifying
  <2>1. UNCHANGED <<stage2_results, stage3_results, stage4_results>> /\
        (keys' = keys \/ keys' \in Listings(DOMAIN stage2_results))
    BY <1>3 DEF BeginVerifying
  <2>2. IsFiniteSet(DOMAIN stage2_results)
    <3>1. IsFiniteSet(1..LastId - 1)
      BY ScannerAssumption, FS_Interval
    <3> QED
      BY <3>1, <1>1, FS_Subset DEF ScanTyped
  <2>3. keys' \in Seq(DOMAIN stage2_results)
    BY <1>1, <2>1, <2>2, ListingOf DEF TypedFound
  <2> QED
    BY <1>1, <2>1, <2>3 DEF TypedFound
<1>4. CASE PollStage3Listens
  <2>1. curr_stage = 3 /\ UNCHANGED <<stage2_results, stage4_results, keys>>
    BY <1>4, Verifying
  <2>2. \/ stage3_results' = stage3_results
        \/ \E found \in Seq(Nat) : /\ found # <<>> => curr_scan_id # 0
             /\ stage3_results' = PairsAnd(found)
    BY <1>4, Verifying
  <2>3. ASSUME NEW found \in Seq(Nat), found # <<>> => curr_scan_id # 0
        PROVE  PairsAnd(found) \in Seq(Pair)
    BY <2>1, <2>3, PairsAdded
  <2>4. stage3_results' \in Seq(Pair)
    BY <1>1, <2>2, <2>3 DEF TypedFound
  <2> QED
    BY <1>1, <2>1, <2>4 DEF TypedFound
<1>5. CASE PollSession
  <2>1. UNCHANGED <<stage2_results, stage3_results, keys>>
    BY <1>5, TriesPair
  <2>2. stage4_results' \in Seq(Support)
    <3>1. CASE stage4_results' = stage4_results
      BY <1>1, <3>1 DEF TypedFound
    <3>2. ASSUME NEW ok \in BOOLEAN, ~(curr_scan_id >= Len(stage3_results)),
                 stage4_results' = Append(stage4_results,
                     [send_id |-> stage3_results[curr_scan_id + 1].send_id,
                      recv_id |-> stage3_results[curr_scan_id + 1].recv_id, kwp |-> ok, uds |-> FALSE])
          PROVE  stage4_results' \in Seq(Support)
      <4>1. stage3_results \in Seq(Pair) /\ curr_scan_id \in Nat
        BY <1>1 DEF ScanTyped
      <4>2. stage3_results[curr_scan_id + 1] \in Pair
        BY <4>1, <3>2
      <4>3. stage3_results[curr_scan_id + 1].send_id \in Nat /\ stage3_results[curr_scan_id + 1].recv_id \in Nat
        BY <4>2 DEF Pair
      <4>4. [send_id |-> stage3_results[curr_scan_id + 1].send_id,
             recv_id |-> stage3_results[curr_scan_id + 1].recv_id, kwp |-> ok, uds |-> FALSE] \in Support
        BY <4>3, Zenon DEF Support
      <4> QED
        BY <1>1, <3>2, <4>4 DEF TypedFound
    <3>3. ASSUME Place \in DOMAIN stage4_results, stage4_results' = [stage4_results EXCEPT ![Place].uds = TRUE]
          PROVE  stage4_results' \in Seq(Support)
      <4>1. stage4_results \in Seq(Support)
        BY <1>1 DEF TypedFound
      <4>2. stage4_results[Place] \in Support
        BY <4>1, <3>3
      <4>3. [stage4_results[Place] EXCEPT !.uds = TRUE] \in Support
        BY <4>2, Zenon DEF Support
      <4>4. stage4_results' = [stage4_results EXCEPT ![Place] = [stage4_results[Place] EXCEPT !.uds = TRUE]]
        BY <3>3
      <4> QED
        BY <4>1, <4>3, <4>4, <3>3
    <3> QED
      BY <3>1, <3>2, <3>3, <1>5, TriesPair
  <2> QED
    BY <1>1, <2>1, <2>2 DEF TypedFound
<1>6. CASE UNCHANGED <<stage2_results, stage3_results, stage4_results, keys>>
  BY <1>1, <1>6 DEF TypedFound
<1>7. \/ PollStage2Listens \/ BeginVerifying \/ PollStage3Listens \/ PollSession
      \/ UNCHANGED <<stage2_results, stage3_results, stage4_results, keys>>
  <2>1. CASE Start \/ Increment \/ Elapse
    BY <2>1 DEF Start, Increment, EndListening, CoolDown, LaterStage, Elapse
  <2>2. CASE Answer \/ Chat
    BY <2>2 DEF Answer, Chat, Receive, scanVars
  <2>3. CASE PollWaiting \/ PollStage2Ends \/ PollStage2Sends \/ PollStage3Ends
    BY <2>3 DEF PollWaiting, PollStage2Ends, PollStage2Sends, PollStage3Ends
  <2>4. CASE PollStage3Sends
    BY <2>4, SendsPair
  <2> QED
    BY <2>1, <2>2, <2>3, <2>4 DEF Next, Poll
<1> QED
  BY <1>2, <1>3, <1>4, <1>5, <1>6, <1>7

LEMMA ScanTypedStep ==
  ASSUME ScanInv, Next
  PROVE  ScanTyped'
<1>1. ScanTyped /\ UNCHANGED <<network, unfiltered>>
  BY TheCarStays DEF ScanInv
<1>2. TypedRest' /\ TypedListed' /\ TypedNoted' /\ TypedFound' /\ expired' \in BOOLEAN
  BY <1>1, TypedRestStep, TypedListedStep, TypedNotedStep, TypedFoundStep, ClockStep
<1>3. rx' \in Seq(Frame) /\ \A f \in Heard(rx') : OfTheCar(f)'
  BY <1>1, FramesStep
<1>4. network' \in Networks /\ unfiltered' \in BOOLEAN
  BY <1>1 DEF ScanTyped
<1> QED
  BY <1>2, <1>3, <1>4 DEF ScanTyped, TypedRest, TypedListed, TypedNoted, TypedFound

\* The stages up to the end of the search, and what they leave alone.
SearchStages ==
  /\ curr_stage <= 1 => curr_scan_id = 0 /\ stage2_results = None
  /\ curr_stage = 1 /\ next = "IncrementStage" => expired
  /\ curr_stage = 2 /\ curr_scan_id = 0 => expired
  /\ curr_stage \in {1, 2} => filters = {Anything}
  /\ curr_stage = 2 /\ next = "IncrementStage" => curr_scan_id >= LastId
  /\ curr_stage <= 2 => keys = <<>> /\ curr_scan_id <= LastId + Cardinality(can_traffic_id_list)

LEMMA SearchStagesStep ==
  ASSUME ScanInv, Next
  PROVE  SearchStages'
<1>1. ScanTyped /\ SearchStages
  BY DEF ScanInv, Searching, SearchStages
<1>2. /\ curr_stage \in 0..7 /\ curr_scan_id \in Nat /\ LastId \in Nat
      /\ Cardinality(can_traffic_id_list) \in Nat /\ Cardinality(can_traffic_id_list') \in Nat
  <2>1. IsFiniteSet(can_traffic_id_list) /\ IsFiniteSet(can_traffic_id_list')
    BY <1>1, TypedListedStep DEF ScanTyped, TypedListed
  <2> QED
    BY <1>1, <2>1, FS_CardinalityType, ScannerAssumption DEF ScanTyped
<1>3. CASE Start
  BY <1>1, <1>2, <1>3 DEF SearchStages, Start, Stay
<1>4. CASE EndListening
  BY <1>1, <1>2, <1>4 DEF SearchStages, EndListening, IncrementStage, Advance
<1>5. CASE BeginVerifying
  BY <1>1, <1>2, <1>5 DEF SearchStages, BeginVerifying, IncrementStage, Advance, adapterVars
<1>6. CASE CoolDown
  BY <1>1, <1>2, <1>6 DEF SearchStages, CoolDown, IncrementStage, Advance, adapterVars
<1>7. CASE LaterStage
  BY <1>1, <1>2, <1>7 DEF SearchStages, LaterStage, IncrementStage, Advance, adapterVars
<1>8. CASE Answer \/ Chat
  <2>1. UNCHANGED <<scanVars, filters>>
    BY <1>8 DEF Answer, Chat, Receive
  <2> QED
    BY <1>1, <2>1 DEF SearchStages, scanVars
<1>9. CASE Elapse
  BY <1>1, <1>2, <1>9 DEF SearchStages, Elapse, adapterVars
<1>10. CASE PollWaiting
  BY <1>1, <1>2, <1>10 DEF SearchStages, PollWaiting, ScanPoll
<1>11. CASE PollStage2Ends
  BY <1>1, <1>2, <1>11 DEF SearchStages, PollStage2Ends, ScannedAll, ScanPoll, adapterVars
<1>12. CASE PollStage2Sends
  <2>1. NextId \in Nat /\ NextId > curr_scan_id /\ NextId <= curr_scan_id + 1 + Cardinality(can_traffic_id_list)
    BY <1>1, NextFree
  <2>2. /\ curr_stage = 2 /\ next = "ScanPoll" /\ ~(curr_scan_id >= LastId) /\ curr_scan_id' = NextId
        /\ UNCHANGED <<curr_stage, next, can_traffic_id_list, stage2_results, keys, filters>>
    BY <1>12 DEF PollStage2Sends, ScanPoll, ScannedAll
  <2> HIDE DEF NextId
  <2> QED
    BY <1>1, <1>2, <2>1, <2>2 DEF SearchStages
<1>13. CASE PollStage2Listens
  <2>1. /\ curr_stage = 2 /\ UNCHANGED <<curr_stage, curr_scan_id, expired, can_traffic_id_list, keys, filters>>
        /\ next' \in {next, "panicked"}
    BY <1>13, Listening
  <2> QED
    BY <1>1, <2>1 DEF SearchStages
<1>14. CASE PollStage3Ends
  BY <1>1, <1>2, <1>14 DEF SearchStages, PollStage3Ends, ScanPoll
<1>15. CASE PollStage3Sends
  <2>1. curr_stage = 3 /\ UNCHANGED curr_stage
    BY <1>15, SendsPair
  <2> QED
    BY <2>1 DEF SearchStages
<1>16. CASE PollStage3Listens
  <2>1. curr_stage = 3 /\ UNCHANGED curr_stage
    BY <1>16, Verifying
  <2> QED
    BY <2>1 DEF SearchStages
<1>17. CASE PollSession
  <2>1. curr_stage \in {5, 6} /\ UNCHANGED curr_stage
    BY <1>17, TriesPair
  <2> QED
    BY <2>1 DEF SearchStages
<1> QED
  BY <1>3, <1>4, <1>5, <1>6, <1>7, <1>8, <1>9, <1>10, <1>11, <1>12, <1>13, <1>14, <1>15, <1>16, <1>17
     DEF Next, Poll, Increment

\* What a frame in the adapter is: who waits to be noted, or chatter.
LEMMA FrameIs ==
  ASSUME ScanTyped, NEW f \in Heard(rx)
  PROVE  \/ f.id \in DOMAIN Chatter /\ f.shape = Chatter[f.id]
         \/ \E s \in DOMAIN Ecus : Waits(s) /\ f = FlowControl(Ecus[s]) /\ f.id = Ecus[s]
BY DEF ScanTyped, OfTheCar, Waits, FlowControl

\* Chatter that was heard is not taken for an answer, and nothing is noted
\* that was.
LEMMA HeardStep ==
  ASSUME ScanInv, Next
  PROVE  /\ (curr_stage >= 2 /\ "unheard" \notin trouble => DOMAIN Chatter \subseteq can_traffic_id_list)'
         /\ (\A k \in DOMAIN stage2_results :
               \A id \in Heard(stage2_results[k]) : id \notin can_traffic_id_list)'
<1>1. ScanTyped /\ Searching /\ UNCHANGED <<network, unfiltered>>
  BY TheCarStays DEF ScanInv
<1>2. /\ curr_stage \in 0..7 /\ Chatter' = Chatter
      /\ curr_stage >= 2 /\ "unheard" \notin trouble => DOMAIN Chatter \subseteq can_traffic_id_list
      /\ \A k \in DOMAIN stage2_results : \A id \in Heard(stage2_results[k]) : id \notin can_traffic_id_list
      /\ curr_stage <= 1 => stage2_results = None
  BY <1>1 DEF ScanTyped, Searching, Chatter
<1>3. CASE Start \/ PollWaiting
  <2>1. curr_stage <= 1 => stage2_results' = None
    BY <1>2, <1>3 DEF Start, PollWaiting
  <2>2. DOMAIN None = {}
    BY DEF None
  <2>3. CASE curr_stage <= 1
    <3>1. curr_stage' \in 0..1
      BY <1>2, <1>3, <2>3 DEF Start, Stay, PollWaiting
    <3> QED
      BY <1>2, <2>1, <2>2, <2>3, <3>1
  <2>4. CASE curr_stage = 4
    <3>1. UNCHANGED <<curr_stage, can_traffic_id_list, stage2_results, trouble>>
      BY <1>3, <2>4 DEF Start, PollWaiting
    <3> QED
      BY <1>2, <3>1
  <2>5. curr_stage \in {0, 1, 4}
    BY <1>3 DEF Start, PollWaiting, ScanPoll
  <2> QED
    BY <2>3, <2>4, <2>5
<1>4. CASE EndListening
  <2>1. stage2_results' = None /\ DOMAIN None = {}
    BY <1>2, <1>4 DEF EndListening, IncrementStage, None
  <2>2. "unheard" \notin trouble' => DOMAIN Chatter \subseteq can_traffic_id_list'
    BY <1>4 DEF EndListening
  <2> QED
    BY <1>2, <2>1, <2>2
<1>5. CASE PollStage2Listens
  <2>1. /\ curr_scan_id \in 1..LastId - 1
        /\ UNCHANGED <<curr_stage, can_traffic_id_list, trouble>>
    BY <1>5, Listening
  <2>2. CASE stage2_results' = stage2_results
    BY <1>2, <2>1, <2>2
  <2>3. ASSUME NEW found \in Seq(Nat), stage2_results' = Noted(found),
               Heard(found) = {rx[p].id : p \in {q \in NewIds : rx[q].shape = "fc"}}
        PROVE  \A k \in DOMAIN stage2_results' :
                 \A id \in Heard(stage2_results'[k]) : id \notin can_traffic_id_list
    <3>1. \A k \in DOMAIN Noted(found) :
              Heard(Noted(found)[k]) = (IF k \in DOMAIN stage2_results THEN Heard(stage2_results[k]) ELSE {})
                                          \cup (IF k = curr_scan_id THEN Heard(found) ELSE {})
      BY <1>1, <2>1, NotedOf
    <3>2. \A id \in Heard(found) : id \notin can_traffic_id_list
      BY <2>3 DEF NewIds
    <3> QED
      BY <1>2, <2>3, <3>1, <3>2
  <2> QED
    BY <1>2, <1>5, <2>1, <2>2, <2>3, Listening
<1>6. ASSUME UNCHANGED <<can_traffic_id_list, stage2_results>>, trouble \subseteq trouble',
             curr_stage' >= 2 => curr_stage >= 2
      PROVE  /\ (curr_stage >= 2 /\ "unheard" \notin trouble => DOMAIN Chatter \subseteq can_traffic_id_list)'
             /\ (\A k \in DOMAIN stage2_results :
               \A id \in Heard(stage2_results[k]) : id \notin can_traffic_id_list)'
  BY <1>2, <1>6
<1>7. \/ Start \/ PollWaiting \/ EndListening \/ PollStage2Listens
      \/ /\ UNCHANGED <<can_traffic_id_list, stage2_results>> /\ trouble \subseteq trouble'
         /\ curr_stage' >= 2 => curr_stage >= 2
  <2>1. CASE BeginVerifying \/ CoolDown \/ LaterStage
    BY <2>1 DEF BeginVerifying, CoolDown, LaterStage, IncrementStage, Advance
  <2>2. CASE Answer \/ Chat
    BY <2>2 DEF Answer, Chat, Receive, scanVars
  <2>3. CASE PollStage2Ends \/ PollStage3Ends \/ Elapse
    BY <2>3 DEF PollStage2Ends, PollStage3Ends, Elapse
  <2>4. CASE PollStage2Sends
    BY <2>4 DEF PollStage2Sends, Send, CallRefused
  <2>5. CASE PollStage3Sends
    BY <2>5, SendsPair
  <2>6. CASE PollStage3Listens
    BY <2>6, Verifying
  <2>7. CASE PollSession
    BY <2>7, TriesPair
  <2> QED
    BY <2>1, <2>2, <2>3, <2>4, <2>5, <2>6, <2>7 DEF Next, Poll, Increment
<1> QED
  BY <1>3, <1>4, <1>5, <1>6, <1>7

LEMMA SearchingStep ==
  ASSUME ScanInv, Next
  PROVE  Searching'
BY SearchStagesStep, HeardStep DEF Searching, SearchStages

LEMMA ListedStep ==
  ASSUME ScanInv, Next
  PROVE  Listed'
<1>1. ScanTyped /\ Listed /\ UNCHANGED <<network, unfiltered>>
  BY TheCarStays DEF ScanInv
<1>2. curr_stage \in 0..7 /\ curr_scan_id \in Nat /\ keys \in Seq(DOMAIN stage2_results)
  BY <1>1 DEF ScanTyped
<1>3. Len(keys) \in Nat
  BY <1>2
<1>4. CASE Start \/ EndListening
  BY <1>2, <1>4 DEF Listed, Start, Stay, EndListening, IncrementStage, Advance
<1>5. CASE BeginVerifying
  <2>1. CASE UNCHANGED curr_stage
    BY <1>5, <1>2, <2>1 DEF Listed, BeginVerifying, IncrementStage
  <2>2. CASE curr_stage' # curr_stage
    <3>1. /\ curr_stage' = 3 /\ curr_scan_id' = 0 /\ filters' = {} /\ rx' = <<>>
          /\ next' \in {"ScanPoll", "none"} /\ UNCHANGED stage2_results
          /\ keys' \in Listings(DOMAIN stage2_results)
      BY <1>5, <2>2 DEF BeginVerifying, IncrementStage, Advance
    <3>2. keys' \in Seq(DOMAIN stage2_results')
      BY TypedFoundStep DEF TypedFound
    <3>3. Len(keys') \in Nat
      BY <3>2
    <3>4. keys' \in Listings(DOMAIN stage2_results')
      BY <3>1
    <3> QED
      BY <3>1, <3>3, <3>4 DEF Listed
  <2> QED
    BY <2>1, <2>2
<1>6. CASE CoolDown
  <2>1. curr_stage = 3 /\ next = "IncrementStage" /\ UNCHANGED <<stage2_results, keys, filters, rx, unfiltered>>
    BY <1>1, <1>6 DEF CoolDown, IncrementStage, adapterVars
  <2>2. \/ curr_stage' = 4
        \/ curr_stage' = 3 /\ next' = "none" /\ UNCHANGED <<expired, curr_scan_id>>
    BY <1>6, <2>1 DEF CoolDown, Advance
  <2>3. CASE curr_stage' = 4
    BY <1>1, <2>1, <2>3 DEF Listed
  <2>4. CASE curr_stage' = 3 /\ next' = "none" /\ UNCHANGED <<expired, curr_scan_id>>
    <3>1. expired'
      BY <1>1, <2>1, <2>4 DEF Listed
    <3> QED
      BY <1>1, <2>1, <2>4, <3>1 DEF Listed
  <2> QED
    BY <2>2, <2>3, <2>4
<1>7. CASE LaterStage
  BY <1>1, <1>2, <1>7 DEF Listed, LaterStage, IncrementStage, Advance, adapterVars
<1>8. CASE Answer \/ Chat
  <2>1. PICK frame \in Frame : Receive(frame)
    BY <1>1, <1>8, WhatArrives
  <2>2. UNCHANGED <<scanVars, filters, unfiltered>> /\ (~Passes(frame.id) => rx' = rx)
    BY <1>1, <2>1, Arrives
  <2>3. filters = {} /\ ~unfiltered => rx' = rx
    BY <2>2 DEF Passes
  <2> QED
    BY <1>1, <2>2, <2>3 DEF Listed, scanVars
<1>9. CASE Elapse
  BY <1>1, <1>2, <1>9 DEF Listed, Elapse, adapterVars
<1>10. CASE PollWaiting
  BY <1>1, <1>2, <1>10 DEF Listed, PollWaiting, ScanPoll
<1>11. CASE PollStage2Ends
  BY <1>1, <1>2, <1>11 DEF Listed, PollStage2Ends, ScanPoll, adapterVars
<1>12. CASE PollStage2Sends
  BY <1>2, <1>12 DEF Listed, PollStage2Sends, ScanPoll
<1>13. CASE PollStage2Listens
  <2>1. curr_stage = 2 /\ UNCHANGED curr_stage
    BY <1>13, Listening
  <2> QED
    BY <2>1 DEF Listed
<1>14. CASE PollStage3Ends
  BY <1>1, <1>2, <1>14 DEF Listed, PollStage3Ends, ScanPoll, Verified
<1>15. CASE PollStage3Sends
  <2>1. /\ curr_stage = 3 /\ next = "ScanPoll" /\ ~(curr_scan_id >= Len(keys))
        /\ UNCHANGED <<curr_stage, stage2_results, keys, unfiltered>>
        /\ \/ rx' = <<>> /\ curr_scan_id' = curr_scan_id + 1 /\ next' = next
           \/ next' = "panicked" /\ UNCHANGED <<filters, rx, curr_scan_id>>
    BY <1>15, SendsPair DEF Verified
  <2> QED
    BY <1>1, <1>2, <1>3, <2>1 DEF Listed
<1>16. CASE PollStage3Listens
  <2>1. /\ curr_stage = 3 /\ next = "ScanPoll" /\ next' \in {next, "panicked"} /\ rx' = <<>>
        /\ UNCHANGED <<curr_stage, curr_scan_id, expired, stage2_results, keys, filters, unfiltered>>
    BY <1>16, Verifying
  <2> QED
    BY <1>1, <2>1 DEF Listed
<1>17. CASE PollSession
  <2>1. curr_stage \in {5, 6} /\ UNCHANGED <<curr_stage, keys, stage2_results>>
    BY <1>17, TriesPair
  <2> QED
    BY <1>1, <2>1 DEF Listed
<1> QED
  BY <1>4, <1>5, <1>6, <1>7, <1>8, <1>9, <1>10, <1>11, <1>12, <1>13, <1>14, <1>15, <1>16, <1>17
     DEF Next, Poll, Increment

\* Before stage 5 and after the tries of it nothing is stored.
LEMMA NotStored ==
  ASSUME Next, ~PollSession
  PROVE  UNCHANGED stage4_results
<1>1. CASE Start \/ Increment \/ Elapse
  BY <1>1 DEF Start, Increment, EndListening, BeginVerifying, CoolDown, LaterStage, Elapse
<1>2. CASE Answer \/ Chat
  BY <1>2 DEF Answer, Chat, Receive, scanVars
<1>3. CASE PollWaiting \/ PollStage2Ends \/ PollStage2Sends \/ PollStage2Listens
  BY <1>3 DEF PollWaiting, PollStage2Ends, PollStage2Sends, PollStage2Listens
<1>4. CASE PollStage3Ends \/ PollStage3Sends \/ PollStage3Listens
  BY <1>4, SendsPair DEF PollStage3Ends, PollStage3Listens
<1> QED
  BY <1>1, <1>2, <1>3, <1>4 DEF Next, Poll

LEMMA TriedStep ==
  ASSUME ScanInv, Next
  PROVE  Tried'
<1>1. ScanTyped /\ Tried
  BY DEF ScanInv
<1>2. /\ curr_stage \in 0..7 /\ curr_scan_id \in Nat
      /\ stage3_results \in Seq(Pair) /\ stage4_results \in Seq(Support)
  BY <1>1 DEF ScanTyped
<1>3. Len(stage3_results) \in Nat /\ Len(stage4_results) \in Nat /\ Len(<<>>) = 0
  BY <1>2
<1>4. CASE Start
  BY <1>1, <1>2, <1>3, <1>4 DEF Tried, Start, Stay
<1>5. CASE EndListening
  BY <1>1, <1>2, <1>3, <1>5 DEF Tried, EndListening, IncrementStage, Advance
<1>6. CASE BeginVerifying
  BY <1>1, <1>2, <1>3, <1>6 DEF Tried, BeginVerifying, IncrementStage, Advance
<1>7. CASE CoolDown
  BY <1>1, <1>2, <1>3, <1>7 DEF Tried, CoolDown, IncrementStage, Advance
<1>8. CASE LaterStage
  <2>1. UNCHANGED <<stage3_results, stage4_results>>
    BY <1>8 DEF LaterStage
  <2>2. CASE curr_stage = 4 /\ curr_stage' = 5 /\ curr_scan_id' = 0 /\ next' = "ScanPoll"
    BY <1>1, <1>3, <2>1, <2>2 DEF Tried
  <2>3. CASE curr_stage = 5 /\ next = "IncrementStage" /\ curr_stage' = 6 /\ curr_scan_id' = 0
    BY <1>1, <1>3, <2>1, <2>3 DEF Tried
  <2>4. CASE curr_stage = 6 /\ curr_stage' = 7 /\ UNCHANGED curr_scan_id
    BY <1>1, <1>3, <2>1, <2>4 DEF Tried
  <2> QED
    BY <1>8, <2>2, <2>3, <2>4 DEF LaterStage, IncrementStage, Advance
<1>9. CASE Answer \/ Chat
  <2>1. UNCHANGED scanVars
    BY <1>9 DEF Answer, Chat, Receive
  <2> QED
    BY <1>1, <2>1 DEF Tried, scanVars
<1>10. CASE Elapse
  BY <1>1, <1>10 DEF Tried, Elapse
<1>11. CASE PollWaiting \/ PollStage2Ends \/ PollStage3Ends
  BY <1>1, <1>2, <1>11 DEF Tried, PollWaiting, PollStage2Ends, PollStage3Ends, ScanPoll
<1>12. CASE PollStage2Sends \/ PollStage2Listens \/ PollStage3Sends \/ PollStage3Listens
  <2>1. curr_stage \in {2, 3} /\ UNCHANGED <<curr_stage, stage4_results>>
    BY <1>12, SendsPair DEF PollStage2Sends, PollStage2Listens, PollStage3Listens, ScanPoll
  <2> QED
    BY <1>1, <2>1 DEF Tried
<1>13. CASE PollSession
  <2>1. curr_stage \in {5, 6} /\ next = "ScanPoll" /\ UNCHANGED <<curr_stage, stage3_results>>
    BY <1>13, TriesPair
  <2>2. CASE curr_scan_id >= Len(stage3_results) /\ UNCHANGED <<curr_scan_id, stage4_results>>
    BY <1>1, <1>2, <1>3, <2>1, <2>2 DEF Tried
  <2>3. CASE ~(curr_scan_id >= Len(stage3_results)) /\ curr_scan_id' = curr_scan_id + 1
    <3>1. \/ /\ curr_stage = 5 /\ next' = next
             /\ \E e : stage4_results' = Append(stage4_results, e)
          \/ curr_stage = 6 /\ UNCHANGED stage4_results
          \/ curr_stage = 6 /\ stage4_results' = [stage4_results EXCEPT ![Place].uds = TRUE]
      BY <1>13, <2>3, <2>1, TriesPair
    <3>2. CASE curr_stage = 5
      <4>1. Len(stage4_results') = Len(stage4_results) + 1
        BY <1>2, <3>1, <3>2
      <4> QED
        BY <1>1, <1>2, <1>3, <2>1, <2>3, <3>1, <3>2, <4>1 DEF Tried
    <3>3. CASE curr_stage = 6
      <4>1. Len(stage4_results') = Len(stage4_results)
        BY <1>2, <3>1, <3>3
      <4> QED
        BY <1>1, <1>2, <1>3, <2>1, <2>3, <3>3, <4>1 DEF Tried
    <3> QED
      BY <2>1, <3>2, <3>3
  <2> QED
    BY <1>13, <2>2, <2>3, TriesPair
<1> QED
  BY <1>4, <1>5, <1>6, <1>7, <1>8, <1>9, <1>10, <1>11, <1>12, <1>13 DEF Next, Poll, Increment

\* Trouble is not forgotten.
LEMMA TroubleStays ==
  ASSUME Next
  PROVE  trouble \subseteq trouble'
<1>1. CASE Start \/ Increment \/ Elapse
  BY <1>1 DEF Start, Increment, EndListening, BeginVerifying, CoolDown, LaterStage, Elapse
<1>2. CASE Answer \/ Chat
  BY <1>2 DEF Answer, Chat, Receive
<1>3. CASE PollWaiting \/ PollStage2Ends \/ PollStage2Sends \/ PollStage2Listens
  BY <1>3 DEF PollWaiting, PollStage2Ends, PollStage2Sends, PollStage2Listens, Send, CallRefused
<1>4. CASE PollStage3Ends \/ PollStage3Listens
  BY <1>4 DEF PollStage3Ends, PollStage3Listens
<1>5. CASE PollStage3Sends
  BY <1>5, SendsPair
<1>6. CASE PollSession
  BY <1>6, TriesPair
<1> QED
  BY <1>1, <1>2, <1>3, <1>4, <1>5, <1>6 DEF Next, Poll

\* A frame with an ECU's identifier is that ECU's flow control.
LEMMA FoundWaits ==
  ASSUME ScanTyped, NEW f \in Heard(rx), NEW s \in DOMAIN Ecus, f.id = Ecus[s]
  PROVE  Waits(s)
<1>1. Ecus[s] \notin DOMAIN Chatter
  BY TheCar
<1>2. PICK t \in DOMAIN Ecus : Waits(t) /\ f.id = Ecus[t]
  BY <1>1, FrameIs
<1> QED
  BY <1>2, TheCar

\* What may be done with the frames while nothing else changes.
LEMMA AskedOnceSame ==
  ASSUME AskedOnce, UNCHANGED <<network, bus, stage2_results, curr_scan_id>>,
         Heard(rx') \subseteq Heard(rx), curr_stage' <= 2 => curr_stage <= 2
  PROVE  AskedOnce'
<1>1. Ecus' = Ecus
  BY DEF Ecus
<1>2. \A s \in DOMAIN Ecus : (Waits(s)' => Waits(s)) /\ (Answered(s)' <=> Answered(s))
  BY <1>1 DEF Waits, Answered, FlowControl
<1> QED
  BY <1>1, <1>2 DEF AskedOnce

LEMMA AskedOnceStep ==
  ASSUME ScanInv, Next
  PROVE  AskedOnce'
<1>1. ScanTyped /\ Searching /\ AskedOnce /\ UNCHANGED <<network, unfiltered>>
  BY TheCarStays DEF ScanInv
<1>2. /\ Ecus' = Ecus /\ curr_stage \in 0..7 /\ curr_scan_id \in Nat
      /\ Heard(<<>>) \subseteq Heard(rx)
  BY <1>1, HeardEmpty DEF Ecus, ScanTyped
<1>3. CASE Start
  <2>1. UNCHANGED <<bus, stage2_results, curr_scan_id, rx>> /\ (curr_stage' <= 2 => curr_stage <= 2)
    BY <1>2, <1>3 DEF Start, Stay
  <2> QED
    BY <1>1, <2>1, AskedOnceSame
<1>4. CASE EndListening
  <2>1. /\ curr_stage = 1 /\ curr_scan_id' = 0 /\ (rx' = <<>> \/ rx' = rx)
        /\ UNCHANGED <<stage2_results, bus>>
    BY <1>4 DEF EndListening, IncrementStage, Advance
  <2>2. curr_scan_id = 0 /\ Heard(rx') \subseteq Heard(rx)
    BY <1>1, <1>2, <2>1 DEF Searching
  <2> QED
    BY <1>1, <2>1, <2>2, AskedOnceSame
<1>5. CASE BeginVerifying \/ CoolDown \/ LaterStage
  <2>1. CASE curr_stage' <= 2
    <3>1. UNCHANGED <<bus, stage2_results, curr_scan_id, rx, curr_stage>>
      BY <1>2, <1>5, <2>1 DEF BeginVerifying, CoolDown, LaterStage, IncrementStage, Advance, adapterVars
    <3> QED
      BY <1>1, <3>1, AskedOnceSame
  <2>2. CASE ~(curr_stage' <= 2)
    BY <2>2 DEF AskedOnce
  <2> QED
    BY <2>1, <2>2
<1>6. CASE Answer \/ Chat
  <2>1. PICK frame \in Frame :
           /\ Receive(frame)
           /\ \/ bus' = bus /\ frame.id \in DOMAIN Chatter
              \/ \E s \in bus : frame = FlowControl(Ecus[s]) /\ bus' = bus \ {s}
    BY <1>1, <1>6, WhatArrives
  <2>2. Heard(rx') \subseteq Heard(rx) \cup {frame} /\ UNCHANGED <<curr_stage, curr_scan_id, stage2_results>>
    BY <1>1, <2>1, Arrives DEF scanVars
  <2>3. \A s \in DOMAIN Ecus : Answered(s)' <=> Answered(s)
    BY <1>2, <2>2 DEF Answered
  <2>4. CASE bus' = bus /\ frame.id \in DOMAIN Chatter
    <3>1. \A s \in DOMAIN Ecus : FlowControl(Ecus[s]) # frame
      BY <2>4, TheCar, <1>1 DEF FlowControl
    <3>2. \A s \in DOMAIN Ecus : Waits(s)' => Waits(s)
      BY <1>2, <2>2, <3>1 DEF Waits, FlowControl
    <3> QED
      BY <1>1, <1>2, <2>2, <2>3, <2>4, <3>2 DEF AskedOnce
  <2>5. ASSUME NEW t \in bus, frame = FlowControl(Ecus[t]), bus' = bus \ {t}
        PROVE  AskedOnce'
    <3>1. \A s \in DOMAIN Ecus : FlowControl(Ecus[s]) = frame => s = t
      <4>1. t \in DOMAIN Ecus
        BY <1>1 DEF ScanTyped
      <4> QED
        BY <2>5, <4>1, TheCar, <1>1 DEF FlowControl
    <3>2. \A s \in DOMAIN Ecus : Waits(s)' => Waits(s) \/ s = t
      BY <1>2, <2>2, <3>1 DEF Waits, FlowControl
    <3> QED
      BY <1>1, <1>2, <2>2, <2>3, <2>5, <3>2 DEF AskedOnce
  <2> QED
    BY <2>1, <2>4, <2>5
<1>7. CASE Elapse \/ PollWaiting \/ PollStage2Ends \/ PollStage3Ends
  <2>1. UNCHANGED <<bus, stage2_results, curr_scan_id, curr_stage>> /\ (rx' = rx \/ rx' = <<>>)
    BY <1>7 DEF Elapse, PollWaiting, PollStage2Ends, PollStage3Ends, adapterVars
  <2>2. Heard(rx') \subseteq Heard(rx)
    BY <1>2, <2>1
  <2> QED
    BY <1>1, <2>1, <2>2, AskedOnceSame
<1>8. CASE PollStage2Sends
  <2>1. /\ curr_stage = 2 /\ curr_scan_id' = NextId /\ rx' = <<>>
        /\ UNCHANGED <<curr_stage, stage2_results>>
        /\ bus' \subseteq bus \cup {NextId}
    BY <1>8 DEF PollStage2Sends, ScanPoll, Send, Sent
  <2>2. NextId \in Nat /\ NextId > curr_scan_id
    BY <1>1, NextFree
  <2>3. \A s \in DOMAIN Ecus : ~Waits(s)' /\ (Answered(s)' <=> Answered(s))
    BY <1>2, <2>1, HeardEmpty DEF Waits, Answered
  <2>4. \A s \in DOMAIN Ecus : s \in bus \/ Answered(s) => s \in 1..curr_scan_id
    BY <1>1, <2>1 DEF AskedOnce
  <2>5. \A s \in DOMAIN Ecus : Answered(s) => s \notin bus
    BY <1>1, <2>1 DEF AskedOnce
  <2> HIDE DEF NextId
  <2> QED
    BY <1>2, <2>1, <2>2, <2>3, <2>4, <2>5 DEF AskedOnce
<1>9. CASE PollStage2Listens
  <2>1. /\ curr_scan_id \in 1..LastId - 1 /\ curr_stage = 2 /\ rx' = <<>>
        /\ UNCHANGED <<curr_stage, curr_scan_id, bus>>
    BY <1>9, Listening
  <2>2. CASE stage2_results' = stage2_results
    <3>1. Heard(rx') \subseteq Heard(rx)
      BY <1>2, <2>1
    <3> QED
      BY <1>1, <2>1, <2>2, <3>1, AskedOnceSame
  <2>3. ASSUME NEW found \in Seq(Nat), stage2_results' = Noted(found),
               Heard(found) = {rx[p].id : p \in {q \in NewIds : rx[q].shape = "fc"}}
        PROVE  AskedOnce'
    <3>1. \A k \in DOMAIN Noted(found) :
              Heard(Noted(found)[k]) \subseteq (IF k \in DOMAIN stage2_results THEN Heard(stage2_results[k]) ELSE {})
                                          \cup Heard(found)
      BY <1>1, <2>1, NotedOf
    <3>2. \A p \in NewIds : rx[p] \in Heard(rx)
      <4>1. rx \in Seq(Frame) /\ NewIds \subseteq DOMAIN rx
        BY <1>1 DEF NewIds, Read, ScanTyped
      <4>2. DOMAIN rx = 1..Len(rx)
        BY <4>1
      <4> QED
        BY <4>1, <4>2 DEF Heard
    <3>3. \A s \in DOMAIN Ecus : Ecus[s] \in Heard(found) => Waits(s)
      BY <1>1, <2>3, <3>2, FoundWaits
    <3>4. \A s \in DOMAIN Ecus : Answered(s)' => Answered(s) \/ Waits(s)
      <4> SUFFICES ASSUME NEW s \in DOMAIN Ecus, NEW k \in DOMAIN Noted(found),
                          Ecus[s] \in Heard(Noted(found)[k])
                   PROVE  Answered(s) \/ Waits(s)
        BY <1>2, <2>3 DEF Answered
      <4>1. CASE Ecus[s] \in Heard(found)
        BY <3>3, <4>1
      <4>2. CASE k \in DOMAIN stage2_results /\ Ecus[s] \in Heard(stage2_results[k])
        BY <4>2 DEF Answered
      <4> QED
        BY <3>1, <4>1, <4>2
    <3>5. \A s \in DOMAIN Ecus : ~Waits(s)'
      BY <2>1, HeardEmpty DEF Waits
    <3> QED
      BY <1>1, <1>2, <2>1, <3>4, <3>5 DEF AskedOnce
  <2> QED
    BY <1>9, <2>2, <2>3, Listening
<1>10. CASE PollStage3Sends \/ PollStage3Listens \/ PollSession
  <2>1. curr_stage \in {3, 5, 6} /\ UNCHANGED curr_stage
    BY <1>10, SendsPair, Verifying, TriesPair
  <2> QED
    BY <2>1 DEF AskedOnce
<1> QED
  BY <1>3, <1>4, <1>5, <1>6, <1>7, <1>8, <1>9, <1>10 DEF Next, Poll, Increment

\* The key stage 3 is at, and the answer its filter is set to.
LEMMA KeyAt ==
  ASSUME ScanTyped, Listed, NEW i \in 1..Len(keys)
  PROVE  /\ keys[i] \in DOMAIN stage2_results /\ stage2_results[keys[i]] \in Seq(Nat)
         /\ stage2_results[keys[i]] # <<>>
         /\ Head(stage2_results[keys[i]]) \in Heard(stage2_results[keys[i]])
         /\ Head(stage2_results[keys[i]]) \in Nat
<1>1. keys \in Seq(DOMAIN stage2_results) /\ stage2_results \in [DOMAIN stage2_results -> Seq(Nat) \ {<<>>}]
  BY DEF ScanTyped
<1>2. keys[i] \in DOMAIN stage2_results
  BY <1>1
<1>3. stage2_results[keys[i]] \in Seq(Nat) /\ stage2_results[keys[i]] # <<>>
  BY <1>1, <1>2
<1> DEFINE s == stage2_results[keys[i]]
<1> HIDE DEF s
<1>4. s \in Seq(Nat) /\ s # <<>>
  BY <1>3 DEF s
<1>5. Head(s) = s[1] /\ 1 \in 1..Len(s) /\ Head(s) \in Nat
  BY <1>4
<1>6. Head(s) \in Heard(s)
  BY <1>5 DEF Heard
<1> QED
  BY <1>2, <1>3, <1>5, <1>6 DEF s

\* One filter lets one identifier pass.
LEMMA OneFilter ==
  ASSUME NEW id \in Nat, NEW wanted \in Nat, filters = {wanted}
  PROVE  Passes(id) <=> id = wanted
BY DEF Passes, Anything

\* From stage to stage.
LEMMA StageMoves ==
  ASSUME Next
  PROVE  \/ UNCHANGED curr_stage
         \/ Start /\ curr_stage = 0 /\ curr_stage' = 1
         \/ EndListening /\ curr_stage = 1 /\ curr_stage' = 2
         \/ BeginVerifying /\ curr_stage = 2 /\ curr_stage' = 3 /\ curr_scan_id' = 0
         \/ CoolDown /\ curr_stage = 3 /\ curr_stage' = 4
         \/ LaterStage /\ curr_stage \in {4, 5, 6} /\ curr_stage' = curr_stage + 1
<1>1. CASE Start
  BY <1>1 DEF Start, Stay
<1>2. CASE EndListening \/ BeginVerifying \/ CoolDown
  BY <1>2 DEF EndListening, BeginVerifying, CoolDown, IncrementStage, Advance
<1>3. CASE LaterStage
  BY <1>3 DEF LaterStage, IncrementStage, Advance
<1>4. CASE Answer \/ Chat \/ Elapse
  BY <1>4 DEF Answer, Chat, Receive, scanVars, Elapse
<1>5. CASE PollWaiting \/ PollStage2Ends \/ PollStage2Sends \/ PollStage2Listens
  BY <1>5 DEF PollWaiting, PollStage2Ends, PollStage2Sends, PollStage2Listens
<1>6. CASE PollStage3Ends \/ PollStage3Sends \/ PollStage3Listens \/ PollSession
  BY <1>6, SendsPair, TriesPair DEF PollStage3Ends, PollStage3Listens
<1> QED
  BY <1>1, <1>2, <1>3, <1>4, <1>5, <1>6 DEF Next, Poll, Increment

LEMMA OnlyTheAskedStep ==
  ASSUME ScanInv, Next
  PROVE  OnlyTheAsked'
<1> SUFFICES ASSUME trouble' \subseteq {"late"}, curr_stage' = 3
             PROVE  /\ \A s \in bus' : Answered(s)' =>
                         ~expired' /\ curr_scan_id' >= 1 /\ s = keys'[curr_scan_id']
                    /\ curr_scan_id' >= 1 /\ next' = "ScanPoll" =>
                         /\ filters' = {Head(stage2_results'[keys'[curr_scan_id']])}
                         /\ \A f \in Heard(rx') :
                              keys'[curr_scan_id'] \in DOMAIN Ecus' /\ f = FlowControl(Ecus'[keys'[curr_scan_id']])
  BY DEF OnlyTheAsked, FlowControl
<1>1. ScanTyped /\ Searching /\ Listed /\ AskedOnce /\ OnlyTheAsked /\ UNCHANGED <<network, unfiltered>>
  BY TheCarStays DEF ScanInv
<1>2. /\ Ecus' = Ecus /\ curr_stage \in 0..7 /\ curr_scan_id \in Nat /\ Heard(<<>>) = {}
      /\ trouble \subseteq {"late"} /\ bus \subseteq DOMAIN Ecus
  BY <1>1, HeardEmpty, TroubleStays DEF Ecus, ScanTyped
<1>3. UNCHANGED stage2_results => \A s : Answered(s)' <=> Answered(s)
  BY <1>2 DEF Answered
<1>4. CASE curr_stage # 3
  <2>1. BeginVerifying /\ curr_stage = 2 /\ curr_scan_id' = 0
    BY <1>2, <1>4, StageMoves
  <2>2. UNCHANGED <<stage2_results, bus>>
    BY <2>1 DEF BeginVerifying
  <2>3. \A s \in bus : ~Answered(s)
    BY <1>1, <1>2, <2>1 DEF AskedOnce
  <2> QED
    BY <1>3, <2>1, <2>2, <2>3
<1> SUFFICES ASSUME curr_stage = 3
             PROVE  /\ \A s \in bus' : Answered(s)' =>
                         ~expired' /\ curr_scan_id' >= 1 /\ s = keys'[curr_scan_id']
                    /\ curr_scan_id' >= 1 /\ next' = "ScanPoll" =>
                         /\ filters' = {Head(stage2_results'[keys'[curr_scan_id']])}
                         /\ \A f \in Heard(rx') :
                              keys'[curr_scan_id'] \in DOMAIN Ecus' /\ f = FlowControl(Ecus'[keys'[curr_scan_id']])
  BY <1>4
<1>5. /\ \A s \in bus : Answered(s) => ~expired /\ curr_scan_id >= 1 /\ s = keys[curr_scan_id]
      /\ curr_scan_id >= 1 /\ next = "ScanPoll" =>
           /\ filters = {Head(stage2_results[keys[curr_scan_id]])}
           /\ \A f \in Heard(rx) :
                keys[curr_scan_id] \in DOMAIN Ecus /\ f = FlowControl(Ecus[keys[curr_scan_id]])
  BY <1>1, <1>2 DEF OnlyTheAsked
<1>6. curr_scan_id <= Len(keys) /\ Len(keys) \in Nat
  BY <1>1 DEF ScanTyped, Listed
<1>7. CASE Increment
  <2>1. UNCHANGED <<curr_scan_id, expired, keys, stage2_results, bus>> /\ next' # "ScanPoll"
    BY <1>7 DEF Increment, EndListening, BeginVerifying, CoolDown, LaterStage, IncrementStage, Advance
  <2> QED
    BY <1>3, <1>5, <2>1
<1>8. CASE Elapse
  <2>1. UNCHANGED <<curr_scan_id, next, keys, stage2_results, bus, filters, rx>>
    BY <1>8 DEF Elapse, adapterVars
  <2>2. \A s \in bus : ~Answered(s)
    <3> SUFFICES ASSUME NEW s \in bus, Answered(s) PROVE FALSE
      OBVIOUS
    <3>1. s = keys[curr_scan_id] /\ curr_scan_id > 0
      BY <1>2, <1>5
    <3>2. "again" \in trouble'
      BY <1>8, <3>1 DEF Elapse
    <3> QED
      BY <3>2
  <2> QED
    BY <1>2, <1>3, <1>5, <2>1, <2>2
<1>9. CASE Answer \/ Chat
  <2>1. PICK frame \in Frame :
           /\ Receive(frame)
           /\ \/ bus' = bus /\ frame.id \in DOMAIN Chatter
              \/ \E s \in bus : frame = FlowControl(Ecus[s]) /\ bus' = bus \ {s}
    BY <1>1, <1>9, WhatArrives
  <2>2. /\ UNCHANGED <<curr_scan_id, expired, next, keys, stage2_results, filters>> /\ bus' \subseteq bus
        /\ Heard(rx') \subseteq Heard(rx) \cup {frame}
        /\ ~Passes(frame.id) => rx' = rx
    BY <1>1, <2>1, Arrives DEF scanVars
  <2>3. ASSUME curr_scan_id >= 1, next = "ScanPoll", Passes(frame.id)
        PROVE  keys[curr_scan_id] \in DOMAIN Ecus /\ frame = FlowControl(Ecus[keys[curr_scan_id]])
    <3> DEFINE k == keys[curr_scan_id]
    <3>1. curr_scan_id \in 1..Len(keys)
      BY <1>2, <1>6, <2>3
    <3>2. /\ k \in DOMAIN stage2_results
          /\ Head(stage2_results[k]) \in Heard(stage2_results[k]) /\ Head(stage2_results[k]) \in Nat
      BY <1>1, <3>1, KeyAt
    <3>3. filters = {Head(stage2_results[k])} /\ frame.id \in Nat
      BY <1>5, <2>3 DEF Frame
    <3>4. frame.id = Head(stage2_results[k])
      BY <2>3, <3>2, <3>3, OneFilter
    <3>5. frame.id \notin DOMAIN Chatter
      <4>1. frame.id \notin can_traffic_id_list
        BY <1>1, <3>2, <3>4 DEF Searching
      <4>2. DOMAIN Chatter \subseteq can_traffic_id_list
        BY <1>1, <1>2 DEF Searching
      <4> QED
        BY <4>1, <4>2
    <3>6. PICK s \in bus : frame = FlowControl(Ecus[s])
      BY <2>1, <3>5
    <3>7. Answered(s)
      BY <3>2, <3>4, <3>6 DEF Answered, FlowControl
    <3>8. s = k
      BY <1>5, <3>7
    <3> QED
      BY <1>2, <3>6, <3>8
  <2> QED
    BY <1>2, <1>3, <1>5, <2>2, <2>3
<1>10. CASE PollStage3Ends
  <2>1. UNCHANGED <<curr_scan_id, expired, keys, stage2_results, bus>> /\ next' # "ScanPoll"
    BY <1>10 DEF PollStage3Ends
  <2> QED
    BY <1>3, <1>5, <2>1
<1>11. CASE PollStage3Sends
  <2>1. expired /\ UNCHANGED <<stage2_results, keys>>
    BY <1>11, SendsPair
  <2>2. \A s \in bus : ~Answered(s)
    BY <1>5, <2>1
  <2>3. /\ rx' = <<>> /\ expired' = FALSE /\ curr_scan_id' = curr_scan_id + 1
        /\ filters' = {Head(stage2_results[keys[curr_scan_id + 1]])}
        /\ bus' \subseteq bus \cup {keys[curr_scan_id + 1]}
    <3>1. "refused" \notin trouble'
      OBVIOUS
    <3> QED
      BY <1>11, <3>1, SendsPair DEF Sent
  <2> QED
    BY <1>2, <1>3, <2>1, <2>2, <2>3
<1>12. CASE PollStage3Listens
  <2>1. /\ rx' = <<>> /\ next' \in {next, "panicked"}
        /\ UNCHANGED <<curr_scan_id, expired, keys, stage2_results, filters, bus>>
    BY <1>12, Verifying
  <2> QED
    BY <1>2, <1>3, <1>5, <2>1
<1>13. Increment \/ Elapse \/ Answer \/ Chat \/ PollStage3Ends \/ PollStage3Sends \/ PollStage3Listens
  BY TriesPair DEF Next, Start, Poll, PollWaiting, PollStage2Ends, PollStage2Sends, PollStage2Listens, ScanPoll
<1> QED
  BY <1>7, <1>8, <1>9, <1>10, <1>11, <1>12, <1>13

\* A flow control that waits is found when the adapter is polled.
LEMMA WaitsFound ==
  ASSUME ScanTyped, NEW s \in DOMAIN Ecus, Waits(s)
  PROVE  \E p \in DOMAIN rx : p \in NewIds /\ rx[p].shape = "fc" /\ rx[p].id = Ecus[s]
<1>1. rx \in Seq(Frame)
  BY DEF ScanTyped
<1>2. PICK p \in DOMAIN rx : rx[p] = FlowControl(Ecus[s])
  BY <1>1 DEF Waits, Heard
<1>3. Ecus[s] \notin can_traffic_id_list
  BY TheCar DEF ScanTyped
<1> QED
  BY <1>2, <1>3 DEF FlowControl, NewIds, Read

\* Time that passes without trouble leaves nobody waiting.
LEMMA InTime ==
  ASSUME ScanTyped, Elapse, curr_stage \in {2, 3}, trouble' = {}
  PROVE  bus = {} /\ \A s \in DOMAIN Ecus : ~Waits(s)
<1>1. ~(bus # {} \/ \E f \in Heard(rx) : f.id \notin DOMAIN Chatter)
  BY DEF Elapse
<1>2. \A s \in DOMAIN Ecus : Waits(s) => \E f \in Heard(rx) : f.id \notin DOMAIN Chatter
  <2> TAKE s \in DOMAIN Ecus
  <2> HAVE Waits(s)
  <2>1. FlowControl(Ecus[s]) \in Heard(rx) /\ FlowControl(Ecus[s]).id = Ecus[s]
    BY DEF Waits, FlowControl
  <2>2. Ecus[s] \notin DOMAIN Chatter
    BY TheCar
  <2> QED
    BY <2>1, <2>2
<1> QED
  BY <1>1, <1>2

NotedOnes ==
  trouble = {} =>
    \A k \in DOMAIN stage2_results : k \in DOMAIN Ecus /\ Head(stage2_results[k]) = Ecus[k]
WaitingOnes ==
  trouble = {} /\ curr_stage = 2 /\ next # "panicked" =>
    \A s \in DOMAIN Ecus : s \in bus \/ Waits(s) => s = curr_scan_id /\ ~expired
AskedOnes ==
  trouble = {} /\ curr_stage = 2 /\ next # "panicked" =>
    \A s \in Scannable : s <= curr_scan_id =>
      \/ s \in DOMAIN stage2_results
      \/ s = curr_scan_id /\ ~expired /\ (s \in bus \/ Waits(s))
AllNoted == trouble = {} /\ curr_stage >= 3 => Scannable \subseteq DOMAIN stage2_results

LEMMA NotedOnesStep ==
  ASSUME ScanInv, Next
  PROVE  NotedOnes'
<1> SUFFICES ASSUME trouble' = {}
             PROVE  \A k \in DOMAIN stage2_results' : k \in DOMAIN Ecus' /\ Head(stage2_results'[k]) = Ecus'[k]
  BY DEF NotedOnes
<1>1. ScanTyped /\ Searching /\ NotedInTime /\ UNCHANGED <<network, unfiltered>>
  BY TheCarStays DEF ScanInv
<1>2. /\ Ecus' = Ecus /\ trouble = {}
      /\ \A k \in DOMAIN stage2_results : k \in DOMAIN Ecus /\ Head(stage2_results[k]) = Ecus[k]
  BY <1>1, TroubleStays DEF Ecus, NotedInTime
<1>3. CASE UNCHANGED stage2_results
  BY <1>2, <1>3
<1>4. CASE PollStage2Listens
  <2>1. curr_scan_id \in 1..LastId - 1 /\ curr_stage = 2 /\ next = "ScanPoll"
    BY <1>4, Listening
  <2>2. ASSUME NEW found \in Seq(Nat), stage2_results' = Noted(found),
               Heard(found) = {rx[p].id : p \in {q \in NewIds : rx[q].shape = "fc"}}
        PROVE  \A k \in DOMAIN stage2_results' : k \in DOMAIN Ecus /\ Head(stage2_results'[k]) = Ecus[k]
    <3>1. \A id \in Heard(found) : curr_scan_id \in DOMAIN Ecus /\ id = Ecus[curr_scan_id]
      <4> TAKE id \in Heard(found)
      <4>1. PICK p \in NewIds : id = rx[p].id
        BY <2>2
      <4>2. p \in DOMAIN rx /\ id \notin can_traffic_id_list /\ rx \in Seq(Frame)
        BY <1>1, <4>1 DEF NewIds, Read, ScanTyped
      <4>3. rx[p] \in Heard(rx)
        BY <4>2 DEF Heard
      <4>4. id \notin DOMAIN Chatter
        BY <1>1, <1>2, <2>1, <4>2 DEF Searching
      <4>5. PICK s \in DOMAIN Ecus : Waits(s) /\ id = Ecus[s]
        BY <1>1, <4>1, <4>3, <4>4, FrameIs
      <4>6. s = curr_scan_id
        BY <1>1, <1>2, <2>1, <4>5 DEF NotedInTime
      <4> QED
        BY <4>5, <4>6
    <3>2. /\ DOMAIN Noted(found) = DOMAIN stage2_results \cup IF found = <<>> THEN {} ELSE {curr_scan_id}
          /\ \A k \in DOMAIN stage2_results : Head(Noted(found)[k]) = Head(stage2_results[k])
          /\ found # <<>> /\ curr_scan_id \notin DOMAIN stage2_results =>
              Head(Noted(found)[curr_scan_id]) \in Heard(found)
      BY <1>1, <2>1, NotedOf
    <3> SUFFICES ASSUME NEW k \in DOMAIN Noted(found)
                 PROVE  k \in DOMAIN Ecus /\ Head(Noted(found)[k]) = Ecus[k]
      BY <2>2
    <3>3. CASE k \in DOMAIN stage2_results
      BY <1>2, <3>2, <3>3
    <3>4. CASE k \notin DOMAIN stage2_results
      <4>1. k = curr_scan_id /\ found # <<>>
        BY <3>2, <3>4
      <4>2. Head(Noted(found)[k]) \in Heard(found)
        BY <3>2, <3>4, <4>1
      <4> QED
        BY <3>1, <4>1, <4>2
    <3> QED
      BY <3>3, <3>4
  <2> QED
    BY <1>2, <1>3, <1>4, <2>2, Listening
<1>5. PollStage2Listens \/ UNCHANGED stage2_results
  BY SearchResultsStay
<1> QED
  BY <1>3, <1>4, <1>5

LEMMA WaitingOnesStep ==
  ASSUME ScanInv, Next
  PROVE  WaitingOnes'
<1> SUFFICES ASSUME trouble' = {}, curr_stage' = 2, next' # "panicked"
             PROVE  \A s \in DOMAIN Ecus' : s \in bus' \/ Waits(s)' => s = curr_scan_id' /\ ~expired'
  BY DEF WaitingOnes
<1>1. ScanTyped /\ Searching /\ AskedOnce /\ NotedInTime /\ UNCHANGED <<network, unfiltered>>
  BY TheCarStays DEF ScanInv
<1>2. /\ Ecus' = Ecus /\ trouble = {} /\ Heard(<<>>) = {}
      /\ \A s \in DOMAIN Ecus : Waits(s)' <=> FlowControl(Ecus[s]) \in Heard(rx')
      /\ \A s \in DOMAIN Ecus : Waits(s) <=> FlowControl(Ecus[s]) \in Heard(rx)
      /\ curr_stage = 2 /\ next # "panicked" =>
           \A s \in DOMAIN Ecus : s \in bus \/ Waits(s) => s = curr_scan_id /\ ~expired
  BY <1>1, TroubleStays, HeardEmpty DEF Ecus, NotedInTime, Waits, FlowControl
<1>3. CASE curr_stage # 2
  <2>1. EndListening /\ curr_stage = 1
    BY <1>1, <1>3, StageMoves DEF ScanTyped
  <2>2. bus' = bus /\ (rx' = rx \/ rx' = <<>>)
    BY <2>1 DEF EndListening
  <2>3. \A s \in DOMAIN Ecus : ~(s \in bus \/ Waits(s))
    BY <1>1, <2>1 DEF AskedOnce, Searching
  <2> QED
    BY <1>2, <2>2, <2>3
<1>4. CASE curr_stage = 2
  <2>1. CASE Elapse
    <3>1. UNCHANGED <<bus, rx>>
      BY <2>1 DEF Elapse, adapterVars
    <3> QED
      BY <1>1, <1>2, <1>4, <2>1, <3>1, InTime
  <2>2. CASE Answer \/ Chat
    <3>1. PICK frame \in Frame :
           /\ Receive(frame)
           /\ \/ bus' = bus /\ frame.id \in DOMAIN Chatter
              \/ \E s \in bus : frame = FlowControl(Ecus[s]) /\ bus' = bus \ {s}
      BY <1>1, <2>2, WhatArrives
    <3>2. Heard(rx') \subseteq Heard(rx) \cup {frame} /\ UNCHANGED <<curr_scan_id, expired, next>>
      BY <1>1, <3>1, Arrives DEF scanVars
    <3>3. \A s \in DOMAIN Ecus : s \in bus' \/ Waits(s)' => s \in bus \/ Waits(s)
      <4>1. CASE frame.id \in DOMAIN Chatter /\ bus' = bus
        <5>1. \A s \in DOMAIN Ecus : FlowControl(Ecus[s]) # frame
          BY <4>1, TheCar, <1>1 DEF FlowControl
        <5> QED
          BY <1>2, <3>2, <4>1, <5>1
      <4>2. ASSUME NEW t \in bus, frame = FlowControl(Ecus[t]), bus' = bus \ {t}
            PROVE  \A s \in DOMAIN Ecus : s \in bus' \/ Waits(s)' => s \in bus \/ Waits(s)
        <5>1. t \in DOMAIN Ecus
          BY <1>1 DEF ScanTyped
        <5>2. \A s \in DOMAIN Ecus : FlowControl(Ecus[s]) = frame => s = t
          BY <4>2, <5>1, TheCar, <1>1 DEF FlowControl
        <5> QED
          BY <1>2, <3>2, <4>2, <5>2
      <4> QED
        BY <3>1, <4>1, <4>2
    <3> QED
      BY <1>2, <1>4, <3>2, <3>3
  <2>3. CASE BeginVerifying \/ PollStage2Ends
    <3>1. UNCHANGED <<bus, rx, curr_scan_id, expired>> /\ next # "panicked"
      BY <1>4, <2>3 DEF BeginVerifying, PollStage2Ends, IncrementStage, Advance, ScanPoll, adapterVars
    <3> QED
      BY <1>2, <1>4, <3>1
  <2>4. CASE PollStage2Sends
    <3>1. /\ next = "ScanPoll" /\ expired /\ rx' = <<>> /\ curr_scan_id' = NextId /\ expired' = FALSE
          /\ bus' \subseteq bus \cup {NextId}
      BY <2>4 DEF PollStage2Sends, ScanPoll, Send, Sent
    <3>2. \A s \in DOMAIN Ecus : s \notin bus
      BY <1>2, <1>4, <3>1
    <3> QED
      BY <1>2, <3>1, <3>2
  <2>5. CASE PollStage2Listens
    <3>1. /\ rx' = <<>> /\ next = "ScanPoll" /\ UNCHANGED <<bus, curr_scan_id, expired>>
      BY <2>5, Listening
    <3> QED
      BY <1>2, <1>4, <3>1
  <2>6. Elapse \/ Answer \/ Chat \/ BeginVerifying \/ PollStage2Ends \/ PollStage2Sends \/ PollStage2Listens
    BY <1>4, SendsPair, TriesPair DEF Next, Start, Increment, EndListening, CoolDown, LaterStage, IncrementStage,
       Poll, PollWaiting, ScanPoll, PollStage3Ends, PollStage3Listens
  <2> QED
    BY <2>1, <2>2, <2>3, <2>4, <2>5, <2>6
<1> QED
  BY <1>3, <1>4

\* Identifiers heard are only collected in stage 1.
LEMMA ListStays ==
  ASSUME ScanInv, Next, curr_stage >= 2
  PROVE  UNCHANGED can_traffic_id_list
<1>1. CASE Start \/ Increment \/ Elapse
  BY <1>1 DEF Start, Increment, EndListening, BeginVerifying, CoolDown, LaterStage, IncrementStage, Elapse
<1>2. CASE Answer \/ Chat
  BY <1>2 DEF Answer, Chat, Receive, scanVars
<1>3. CASE PollWaiting
  <2>1. curr_stage # 1
    OBVIOUS
  <2> QED
    BY <1>3, <2>1 DEF PollWaiting
<1>4. CASE PollStage2Ends \/ PollStage2Sends \/ PollStage2Listens \/ PollStage3Ends
  BY <1>4 DEF PollStage2Ends, PollStage2Sends, PollStage2Listens, PollStage3Ends
<1>5. CASE PollStage3Sends \/ PollStage3Listens \/ PollSession
  BY <1>5, SendsPair, Verifying, TriesPair
<1> QED
  BY <1>1, <1>2, <1>3, <1>4, <1>5 DEF Next, Poll

LEMMA AskedOnesStep ==
  ASSUME ScanInv, Next
  PROVE  AskedOnes'
<1> SUFFICES ASSUME trouble' = {}, curr_stage' = 2, next' # "panicked",
                    NEW s \in Scannable', s <= curr_scan_id'
             PROVE  \/ s \in DOMAIN stage2_results'
                    \/ s = curr_scan_id' /\ ~expired' /\ (s \in bus' \/ Waits(s)')
  BY DEF AskedOnes
<1>1. ScanTyped /\ Searching /\ NotedInTime /\ UNCHANGED <<network, unfiltered>>
  BY TheCarStays DEF ScanInv
<1>2. /\ Ecus' = Ecus /\ Chatter' = Chatter /\ trouble = {} /\ s \in DOMAIN Ecus /\ s \in 1..LastId - 1
      /\ s \notin can_traffic_id_list' /\ curr_scan_id \in Nat /\ LastId \in Nat
      /\ Waits(s)' <=> FlowControl(Ecus[s]) \in Heard(rx')
      /\ Waits(s) <=> FlowControl(Ecus[s]) \in Heard(rx)
  BY <1>1, TroubleStays, ScannerAssumption DEF Ecus, Chatter, Scannable, Waits, FlowControl, ScanTyped
<1>3. CASE curr_stage # 2
  <2>1. EndListening /\ curr_stage = 1
    BY <1>1, <1>3, StageMoves DEF ScanTyped
  <2>2. curr_scan_id' = 0
    BY <2>1 DEF EndListening, Advance
  <2> QED
    BY <1>2, <2>2
<1>4. CASE curr_stage = 2
  <2>1. can_traffic_id_list' = can_traffic_id_list
    BY <1>4, ListStays
  <2>2. s \in Scannable
    BY <1>2, <2>1 DEF Scannable
  <2>3. next # "panicked" /\ s <= curr_scan_id =>
           s \in DOMAIN stage2_results \/ (s = curr_scan_id /\ ~expired /\ (s \in bus \/ Waits(s)))
    BY <1>1, <1>2, <1>4, <2>2 DEF NotedInTime
  <2>4. CASE Elapse
    <3>1. UNCHANGED <<bus, rx, next, curr_scan_id, stage2_results>>
      BY <2>4 DEF Elapse, adapterVars
    <3>2. s \notin bus /\ ~Waits(s)
      BY <1>1, <1>2, <1>4, <2>4, InTime
    <3> QED
      BY <2>3, <3>1, <3>2
  <2>5. CASE Answer \/ Chat
    <3>1. PICK frame \in Frame :
           /\ Receive(frame)
           /\ \/ bus' = bus /\ frame.id \in DOMAIN Chatter
              \/ \E t \in bus : frame = FlowControl(Ecus[t]) /\ bus' = bus \ {t}
      BY <1>1, <2>5, WhatArrives
    <3>2. /\ Heard(rx) \subseteq Heard(rx') /\ UNCHANGED <<curr_scan_id, expired, next, stage2_results>>
          /\ Passes(frame.id) => frame \in Heard(rx')
      BY <1>1, <3>1, Arrives DEF scanVars
    <3>3. Passes(frame.id)
      BY <1>1, <1>4 DEF Searching, Passes
    <3>4. s \in bus => s \in bus' \/ frame = FlowControl(Ecus[s])
      BY <3>1
    <3> QED
      BY <1>2, <2>3, <3>2, <3>3, <3>4
  <2>6. CASE BeginVerifying \/ PollStage2Ends
    <3>1. UNCHANGED <<bus, rx, curr_scan_id, expired, stage2_results>> /\ next # "panicked"
      BY <1>4, <2>6 DEF BeginVerifying, PollStage2Ends, IncrementStage, Advance, ScanPoll, adapterVars
    <3> QED
      BY <1>2, <2>3, <3>1
  <2>7. CASE PollStage2Sends
    <3>1. /\ next = "ScanPoll" /\ expired /\ rx' = <<>> /\ curr_scan_id' = NextId
          /\ UNCHANGED stage2_results /\ Send(NextId)
      BY <2>7 DEF PollStage2Sends, ScanPoll
    <3>2. ~expired'
      BY <2>7 DEF PollStage2Sends
    <3>3. \A m \in Nat : curr_scan_id < m /\ m < NextId => m \in can_traffic_id_list
      BY <1>1, NextFree
    <3>4. NextId \in Nat /\ s \in Nat
      BY <1>1, <1>2, NextFree
    <3>5. CASE s = NextId
      <4>1. "refused" \notin trouble'
        OBVIOUS
      <4>2. s \in bus'
        BY <1>2, <3>1, <3>5, <4>1 DEF Send, Sent, CallRefused
      <4> QED
        BY <3>1, <3>2, <3>5, <4>2
    <3>6. CASE s # NextId
      <4>1. s < NextId
        BY <3>1, <3>4, <3>6
      <4>2. s <= curr_scan_id
        BY <1>2, <2>1, <3>3, <3>4, <4>1
      <4> QED
        BY <2>3, <3>1, <4>2
    <3> QED
      BY <3>5, <3>6
  <2>8. CASE PollStage2Listens
    <3>1. /\ next = "ScanPoll" /\ UNCHANGED <<bus, curr_scan_id, expired>> /\ curr_scan_id \in 1..LastId - 1
      BY <2>8, Listening
    <3>2. PICK found \in Seq(Nat) :
            /\ Heard(found) = {rx[p].id : p \in {q \in NewIds : rx[q].shape = "fc"}}
            /\ stage2_results' = Noted(found)
      BY <2>8, Listening
    <3>3. DOMAIN stage2_results' = DOMAIN stage2_results \cup IF found = <<>> THEN {} ELSE {curr_scan_id}
      BY <1>1, <3>1, <3>2, NotedOf
    <3>4. CASE s \in DOMAIN stage2_results
      BY <3>3, <3>4
    <3>5. CASE s = curr_scan_id /\ ~expired /\ s \in bus
      BY <3>1, <3>5
    <3>6. CASE s = curr_scan_id /\ Waits(s)
      <4>1. PICK p \in DOMAIN rx : p \in NewIds /\ rx[p].shape = "fc" /\ rx[p].id = Ecus[s]
        BY <1>1, <1>2, <3>6, WaitsFound
      <4>2. Ecus[s] \in Heard(found)
        BY <3>2, <4>1
      <4>3. found # <<>>
        BY <4>2, HeardEmpty
      <4> QED
        BY <3>3, <3>6, <4>3
    <3> QED
      BY <2>3, <3>1, <3>4, <3>5, <3>6
  <2>9. Elapse \/ Answer \/ Chat \/ BeginVerifying \/ PollStage2Ends \/ PollStage2Sends \/ PollStage2Listens
    BY <1>4, SendsPair, TriesPair DEF Next, Start, Increment, EndListening, CoolDown, LaterStage, IncrementStage,
       Poll, PollWaiting, ScanPoll, PollStage3Ends, PollStage3Listens
  <2> QED
    BY <2>4, <2>5, <2>6, <2>7, <2>8, <2>9
<1> QED
  BY <1>3, <1>4

LEMMA AllNotedStep ==
  ASSUME ScanInv, Next
  PROVE  AllNoted'
<1> SUFFICES ASSUME trouble' = {}, curr_stage' >= 3, NEW s \in Scannable'
             PROVE  s \in DOMAIN stage2_results'
  BY DEF AllNoted
<1>1. ScanTyped /\ Searching /\ NotedInTime /\ UNCHANGED <<network, unfiltered>>
  BY TheCarStays DEF ScanInv
<1>2. /\ Ecus' = Ecus /\ trouble = {} /\ s \in DOMAIN Ecus /\ s \in 1..LastId - 1
      /\ s \notin can_traffic_id_list' /\ curr_scan_id \in Nat /\ LastId \in Nat /\ curr_stage \in 0..7
  BY <1>1, TroubleStays, ScannerAssumption DEF Ecus, Scannable, ScanTyped
<1>3. CASE curr_stage = 2
  <2>1. BeginVerifying
    BY <1>3, StageMoves
  <2>2. /\ next = "IncrementStage" /\ UNCHANGED <<stage2_results, can_traffic_id_list>>
    BY <2>1 DEF BeginVerifying, IncrementStage
  <2>3. curr_scan_id >= LastId /\ s \in Scannable
    BY <1>1, <1>2, <1>3, <2>2 DEF Searching, Scannable
  <2>4. s \in DOMAIN stage2_results \/ s = curr_scan_id
    BY <1>1, <1>2, <1>3, <2>2, <2>3 DEF NotedInTime
  <2> QED
    BY <1>2, <2>2, <2>3, <2>4
<1>4. CASE curr_stage >= 3
  <2>1. UNCHANGED <<can_traffic_id_list, stage2_results>>
    <3>1. curr_stage # 2 /\ curr_stage >= 2
      BY <1>2, <1>4
    <3>2. ~PollStage2Listens
      BY <3>1 DEF PollStage2Listens, ScanPoll
    <3> QED
      BY <3>1, <3>2, ListStays, SearchResultsStay
  <2>2. s \in Scannable
    BY <1>2, <2>1 DEF Scannable
  <2> QED
    BY <1>1, <1>2, <1>4, <2>1, <2>2 DEF NotedInTime
<1>5. curr_stage = 2 \/ curr_stage >= 3
  BY <1>2, StageMoves
<1> QED
  BY <1>3, <1>4, <1>5

LEMMA NotedInTimeStep ==
  ASSUME ScanInv, Next
  PROVE  NotedInTime'
BY NotedOnesStep, WaitingOnesStep, AskedOnesStep, AllNotedStep
   DEF NotedInTime, NotedOnes, WaitingOnes, AskedOnes, AllNoted

\* What a poll of stage 3 adds to the pairs, if it does not panic.
LEMMA PairsFound ==
  ASSUME ScanInv, PollStage3Listens, next' # "panicked"
  PROVE  /\ \A j \in DOMAIN stage3_results : j \in DOMAIN stage3_results' /\ stage3_results'[j] = stage3_results[j]
         /\ \A j \in DOMAIN stage3_results' :
              \/ j \in DOMAIN stage3_results /\ stage3_results'[j] = stage3_results[j]
              \/ \E p \in DOMAIN rx :
                   /\ rx[p].shape = "fc" /\ curr_scan_id # 0
                   /\ stage3_results'[j] = [send_id |-> keys[curr_scan_id], recv_id |-> rx[p].id]
         /\ \A p \in DOMAIN rx : rx[p].shape = "fc" =>
              \E j \in DOMAIN stage3_results' :
                stage3_results'[j] = [send_id |-> keys[curr_scan_id], recv_id |-> rx[p].id]
<1>1. PICK found \in Seq(Nat) :
          /\ Heard(found) = {rx[p].id : p \in {q \in DOMAIN rx : rx[q].shape = "fc"}}
          /\ ~(found # <<>> /\ curr_scan_id = 0)
          /\ stage3_results' = PairsAnd(found)
  BY Verifying
<1> DEFINE all == PairsAnd(found)
<1>2. stage3_results' = all
  BY <1>1
<1>3. curr_stage = 3 /\ (found # <<>> => curr_scan_id # 0)
  BY <1>1, Verifying
<1>5. /\ \A j \in DOMAIN stage3_results : j \in DOMAIN all /\ all[j] = stage3_results[j]
      /\ \A j \in DOMAIN all :
           \/ j \in DOMAIN stage3_results /\ all[j] = stage3_results[j]
           \/ \E id \in Heard(found) : all[j] = PairWith(id)
      /\ \A id \in Heard(found) : \E j \in DOMAIN all : all[j] = PairWith(id)
  BY <1>3, PairsAdded
<1> HIDE DEF all
<1>7. Heard(found) # {} => curr_scan_id # 0
  BY <1>3, HeardEmpty
<1>8. \A id \in Heard(found) : \E p \in DOMAIN rx : rx[p].shape = "fc" /\ id = rx[p].id
  BY <1>1
<1>9. \A p \in DOMAIN rx : rx[p].shape = "fc" => rx[p].id \in Heard(found)
  BY <1>1
<1>10. \A j \in DOMAIN all :
          \/ j \in DOMAIN stage3_results /\ all[j] = stage3_results[j]
          \/ \E p \in DOMAIN rx : rx[p].shape = "fc" /\ curr_scan_id # 0 /\ all[j] = PairWith(rx[p].id)
  BY <1>5, <1>7, <1>8
<1>11. \A p \in DOMAIN rx : rx[p].shape = "fc" => \E j \in DOMAIN all : all[j] = PairWith(rx[p].id)
  BY <1>5, <1>9
<1> QED
  BY <1>2, <1>5, <1>10, <1>11 DEF PairWith

\* Only stage 3 adds pairs, and it keeps those there are.
LEMMA PairsStay ==
  ASSUME ScanInv, Next
  PROVE  /\ (PollStage3Listens /\ next' # "panicked") \/ UNCHANGED stage3_results
         /\ Paired \subseteq Paired'
<1>1. PollStage3Listens \/ UNCHANGED stage3_results
  <2>1. CASE Start \/ Increment \/ Elapse
    BY <2>1 DEF Start, Increment, EndListening, BeginVerifying, CoolDown, LaterStage, Elapse
  <2>2. CASE Answer \/ Chat
    BY <2>2 DEF Answer, Chat, Receive, scanVars
  <2>3. CASE PollWaiting \/ PollStage2Ends \/ PollStage2Sends \/ PollStage2Listens \/ PollStage3Ends
    BY <2>3 DEF PollWaiting, PollStage2Ends, PollStage2Sends, PollStage2Listens, PollStage3Ends
  <2>4. CASE PollStage3Sends \/ PollSession
    BY <2>4, SendsPair, TriesPair
  <2> QED
    BY <2>1, <2>2, <2>3, <2>4 DEF Next, Poll
<1>2. UNCHANGED stage3_results => Paired \subseteq Paired'
  BY DEF Paired
<1>3. ASSUME PollStage3Listens, next' # "panicked" PROVE Paired \subseteq Paired'
  <2>1. \A j \in DOMAIN stage3_results : j \in DOMAIN stage3_results' /\ stage3_results'[j] = stage3_results[j]
    BY <1>3, PairsFound
  <2> QED
    BY <2>1 DEF Paired
<1>4. ASSUME PollStage3Listens, next' = "panicked" PROVE UNCHANGED stage3_results
  <2>1. PICK found \in Seq(Nat) :
          /\ Heard(found) = {rx[p].id : p \in {q \in DOMAIN rx : rx[q].shape = "fc"}}
          /\ \/ /\ Panics(Read) \/ (found # <<>> /\ curr_scan_id = 0)
                /\ next' = "panicked" /\ UNCHANGED stage3_results
             \/ /\ ~Panics(Read) /\ ~(found # <<>> /\ curr_scan_id = 0) /\ next' = next
                /\ stage3_results' = PairsAnd(found)
    BY <1>4, Verifying
  <2>2. next = "ScanPoll"
    BY <1>4, Verifying
  <2> QED
    BY <1>4, <2>1, <2>2
<1> QED
  BY <1>1, <1>2, <1>3, <1>4

\* Stage 3 while the scan has had no trouble: the filter is the ECU's own.
LEMMA OwnFilter ==
  ASSUME ScanInv, trouble = {}, curr_stage = 3, curr_scan_id >= 1, next # "panicked", ~expired
  PROVE  /\ next = "ScanPoll" /\ curr_scan_id \in 1..Len(keys)
         /\ keys[curr_scan_id] \in DOMAIN Ecus /\ filters = {Ecus[keys[curr_scan_id]]}
<1>1. /\ ScanTyped /\ Listed /\ OnlyTheAsked /\ NotedInTime
      /\ curr_scan_id \in Nat /\ Len(keys) \in Nat /\ curr_scan_id <= Len(keys)
  <2>1. ScanTyped /\ Listed /\ OnlyTheAsked /\ NotedInTime
    BY DEF ScanInv
  <2>2. keys \in Seq(DOMAIN stage2_results) /\ curr_scan_id \in Nat
    BY <2>1 DEF ScanTyped
  <2>3. curr_scan_id <= Len(keys)
    BY <2>1 DEF Listed
  <2> QED
    BY <2>1, <2>2, <2>3
<1>2. next = "ScanPoll"
  <2>1. next \in {"none", "panicked", "ScanPoll", "IncrementStage"}
    BY <1>1 DEF ScanTyped
  <2>2. next # "IncrementStage"
    BY <1>1 DEF Listed
  <2>3. next # "none"
    <3>1. curr_scan_id # 0
      BY <1>1
    <3> QED
      BY <1>1, <3>1 DEF Listed
  <2> QED
    BY <2>1, <2>2, <2>3
<1>3. curr_scan_id \in 1..Len(keys)
  BY <1>1
<1>4. keys[curr_scan_id] \in DOMAIN stage2_results
  BY <1>1, <1>3, KeyAt
<1>5. keys[curr_scan_id] \in DOMAIN Ecus /\ Head(stage2_results[keys[curr_scan_id]]) = Ecus[keys[curr_scan_id]]
  BY <1>1, <1>4 DEF NotedInTime
<1>6. filters = {Head(stage2_results[keys[curr_scan_id]])}
  BY <1>1, <1>2 DEF OnlyTheAsked
<1> QED
  BY <1>2, <1>3, <1>5, <1>6

VerifiedOnes ==
  trouble = {} /\ next # "panicked" /\ curr_stage = 3 =>
    \A i \in 1..curr_scan_id :
      \/ keys[i] \in Paired
      \/ i = curr_scan_id /\ ~expired /\ keys[i] \in bus \cup Waiting

LEMMA VerifiedOnesStep ==
  ASSUME ScanInv, Next
  PROVE  VerifiedOnes'
<1> SUFFICES ASSUME trouble' = {}, curr_stage' = 3, next' # "panicked", NEW i \in 1..curr_scan_id'
             PROVE  \/ keys'[i] \in Paired'
                    \/ i = curr_scan_id' /\ ~expired' /\ keys'[i] \in bus' \cup Waiting'
  BY DEF VerifiedOnes
<1>1. /\ ScanTyped /\ Listed /\ NotedInTime /\ VerifiedInTime /\ UNCHANGED <<network, unfiltered>>
      /\ trouble = {} /\ Ecus' = Ecus /\ curr_scan_id \in Nat
      /\ Paired \subseteq Paired'
      /\ Waiting' = {s \in DOMAIN Ecus : FlowControl(Ecus[s]) \in Heard(rx')}
      /\ Waiting = {s \in DOMAIN Ecus : FlowControl(Ecus[s]) \in Heard(rx)}
  BY TheCarStays, TroubleStays, PairsStay DEF ScanInv, ScanTyped, Ecus, Waits, Waiting, FlowControl
<1>2. CASE curr_stage # 3
  <2>1. curr_scan_id' = 0
    BY <1>1, <1>2, StageMoves DEF ScanTyped
  <2> QED
    BY <2>1
<1> SUFFICES ASSUME curr_stage = 3
             PROVE  \/ keys'[i] \in Paired'
                    \/ i = curr_scan_id' /\ ~expired' /\ keys'[i] \in bus' \cup Waiting'
  BY <1>2
<1>3. next # "panicked" /\ i \in 1..curr_scan_id =>
        \/ keys[i] \in Paired
        \/ i = curr_scan_id /\ ~expired /\ keys[i] \in bus \cup Waiting
  BY <1>1 DEF VerifiedInTime
<1>4. next # "panicked" /\ i = curr_scan_id /\ ~expired => keys[i] \in DOMAIN Ecus /\ filters = {Ecus[keys[i]]}
  BY <1>1, OwnFilter
<1>5. CASE CoolDown \/ PollStage3Ends
  <2>1. /\ next # "panicked" /\ expired /\ UNCHANGED <<curr_scan_id, keys>>
    BY <1>1, <1>5 DEF CoolDown, PollStage3Ends, ScanPoll, IncrementStage, Advance, Listed
  <2> QED
    BY <1>1, <1>3, <2>1
<1>6. CASE Elapse
  <2>1. /\ UNCHANGED <<bus, rx, next, curr_scan_id, keys>>
    BY <1>6 DEF Elapse, adapterVars
  <2>2. i = curr_scan_id /\ ~expired => keys[i] \notin bus /\ keys[i] \notin Waiting
    BY <1>1, <1>4, <1>6, <2>1, InTime DEF Waiting
  <2> QED
    BY <1>1, <1>3, <2>1, <2>2
<1>7. CASE Answer \/ Chat
  <2>1. PICK frame \in Frame :
           /\ Receive(frame)
           /\ \/ bus' = bus /\ frame.id \in DOMAIN Chatter
              \/ \E t \in bus : frame = FlowControl(Ecus[t]) /\ bus' = bus \ {t}
    BY <1>1, <1>7, WhatArrives
  <2>2. /\ Heard(rx) \subseteq Heard(rx') /\ UNCHANGED <<curr_scan_id, expired, next, keys>>
        /\ Passes(frame.id) => frame \in Heard(rx')
    BY <1>1, <2>1, Arrives DEF scanVars
  <2>3. CASE keys[i] \in Paired
    BY <1>1, <2>2, <2>3
  <2>4. CASE i = curr_scan_id /\ ~expired /\ keys[i] \in bus
    <3>1. CASE keys[i] \in bus'
      BY <2>2, <2>4, <3>1
    <3>2. CASE keys[i] \notin bus'
      <4>1. frame = FlowControl(Ecus[keys[i]])
        BY <2>1, <2>4, <3>2
      <4>2. filters = {frame.id}
        BY <1>4, <2>2, <2>4, <4>1 DEF FlowControl
      <4>3. Passes(frame.id)
        BY <4>2 DEF Passes
      <4>4. keys[i] \in DOMAIN Ecus /\ next = "ScanPoll" /\ i = curr_scan_id'
        BY <1>1, <1>4, <2>2, <2>4, OwnFilter
      <4>5. FlowControl(Ecus[keys[i]]) \in Heard(rx')
        BY <2>2, <4>1, <4>3
      <4>6. keys[i] \in Waiting'
        BY <1>1, <4>4, <4>5
      <4> QED
        BY <2>2, <2>4, <4>4, <4>6
    <3> QED
      BY <3>1, <3>2
  <2>5. CASE i = curr_scan_id /\ ~expired /\ keys[i] \in Waiting
    BY <1>1, <2>2, <2>5
  <2> QED
    BY <1>3, <2>2, <2>3, <2>4, <2>5
<1>8. CASE PollStage3Sends
  <2>1. "refused" \notin trouble'
    OBVIOUS
  <2>2. /\ next = "ScanPoll" /\ expired /\ ~(curr_scan_id >= Len(keys)) /\ UNCHANGED keys
        /\ expired' = FALSE /\ curr_scan_id' = curr_scan_id + 1 /\ Sent(keys[curr_scan_id + 1])
    BY <1>8, <2>1, SendsPair DEF Verified
  <2>3. CASE i \in 1..curr_scan_id
    BY <1>1, <1>3, <2>2, <2>3
  <2>4. CASE i = curr_scan_id + 1
    <3>1. Len(keys) \in Nat
      BY <1>1 DEF ScanTyped
    <3>2. i \in 1..Len(keys)
      BY <1>1, <2>2, <2>4, <3>1
    <3>3. keys[i] \in DOMAIN stage2_results
      BY <1>1, <3>2, KeyAt
    <3>4. keys[i] \in DOMAIN Ecus
      BY <1>1, <3>3 DEF NotedInTime
    <3>5. keys[i] \in bus'
      BY <2>2, <2>4, <3>4 DEF Sent
    <3> QED
      BY <2>2, <2>4, <3>5
  <2>5. i \in 1..curr_scan_id \/ i = curr_scan_id + 1
    BY <1>1, <2>2
  <2> QED
    BY <2>3, <2>4, <2>5
<1>9. CASE PollStage3Listens
  <2>1. /\ next = "ScanPoll" /\ UNCHANGED <<bus, curr_scan_id, expired, keys>>
    BY <1>9, Verifying
  <2>3. CASE i = curr_scan_id /\ ~expired /\ keys[i] \in Waiting
    <3>1. keys[i] \in DOMAIN Ecus
      BY <1>4, <2>1, <2>3
    <3>2. PICK p \in DOMAIN rx : rx[p].shape = "fc" /\ rx[p].id = Ecus[keys[i]]
      BY <1>1, <2>3, <3>1, WaitsFound DEF Waiting
    <3>3. PICK j \in DOMAIN stage3_results' :
            stage3_results'[j] = [send_id |-> keys[curr_scan_id], recv_id |-> rx[p].id]
      BY <1>9, <3>2, PairsFound
    <3>4. stage3_results'[j].send_id = keys[i]
      BY <2>3, <3>3
    <3>6. keys[i] \in Paired'
      BY <3>4 DEF Paired
    <3> QED
      BY <2>1, <3>6
  <2> QED
    BY <1>1, <1>3, <2>1, <2>3
<1>10. CoolDown \/ PollStage3Ends \/ Elapse \/ Answer \/ Chat \/ PollStage3Sends \/ PollStage3Listens
  BY TriesPair DEF Next, Start, Increment, EndListening, BeginVerifying, LaterStage, IncrementStage,
     Poll, PollWaiting, PollStage2Ends, PollStage2Sends, PollStage2Listens, ScanPoll
<1> QED
  BY <1>5, <1>6, <1>7, <1>8, <1>9, <1>10

LEMMA VerifiedInTimeStep ==
  ASSUME ScanInv, Next
  PROVE  VerifiedInTime'
<1>1. /\ ScanTyped /\ Listed /\ VerifiedInTime
      /\ Paired \subseteq Paired'
  BY PairsStay DEF ScanInv
<1>2. ASSUME trouble' = {}, next' # "panicked", curr_stage' >= 4, NEW i \in DOMAIN keys'
      PROVE  keys'[i] \in Paired'
  <2>1. trouble = {} /\ curr_stage \in 0..7 /\ curr_scan_id \in Nat
    BY <1>1, <1>2, TroubleStays DEF ScanTyped
  <2>2. CASE curr_stage = 3
    <3>1. CoolDown
      BY <1>2, <2>2, StageMoves
    <3>2. next = "IncrementStage" /\ UNCHANGED keys
      BY <3>1 DEF CoolDown, IncrementStage
    <3>3. expired /\ curr_scan_id >= Len(keys) /\ DOMAIN keys = 1..Len(keys) /\ Len(keys) \in Nat
      BY <1>1, <2>2, <3>2 DEF Listed, ScanTyped
    <3>4. i \in 1..curr_scan_id
      BY <1>2, <2>1, <3>2, <3>3
    <3>5. keys[i] \in Paired
      BY <1>1, <2>1, <2>2, <3>2, <3>3, <3>4 DEF VerifiedInTime
    <3> QED
      BY <1>1, <3>2, <3>5
  <2>3. CASE curr_stage >= 4
    <3>1. UNCHANGED keys
      <4>1. CASE Start \/ Increment \/ Elapse
        BY <2>3, <4>1 DEF Start, Increment, EndListening, BeginVerifying, CoolDown, LaterStage, IncrementStage, Elapse
      <4>2. CASE Answer \/ Chat
        BY <4>2 DEF Answer, Chat, Receive, scanVars
      <4>3. CASE PollWaiting \/ PollStage2Ends \/ PollStage2Sends \/ PollStage2Listens \/ PollStage3Ends
        BY <4>3 DEF PollWaiting, PollStage2Ends, PollStage2Sends, PollStage2Listens, PollStage3Ends
      <4>4. CASE PollStage3Sends \/ PollStage3Listens \/ PollSession
        BY <4>4, SendsPair, Verifying, TriesPair
      <4> QED
        BY <4>1, <4>2, <4>3, <4>4 DEF Next, Poll
    <3>2. next # "panicked"
      <4>1. CASE Start \/ Increment
        BY <2>3, <4>1 DEF Start, Increment, EndListening, BeginVerifying, CoolDown, LaterStage, IncrementStage
      <4>2. CASE Answer \/ Chat \/ Elapse
        BY <1>2, <4>2 DEF Answer, Chat, Receive, scanVars, Elapse
      <4>3. CASE Poll
        BY <4>3, SendsPair, Verifying, TriesPair DEF Poll, PollWaiting, PollStage2Ends, PollStage2Sends,
           PollStage2Listens, PollStage3Ends, ScanPoll
      <4> QED
        BY <4>1, <4>2, <4>3 DEF Next
    <3>3. keys[i] \in Paired
      BY <1>1, <1>2, <2>1, <2>3, <3>1, <3>2 DEF VerifiedInTime
    <3> QED
      BY <1>1, <3>1, <3>3
  <2>4. curr_stage = 3 \/ curr_stage >= 4
    BY <1>2, <2>1, StageMoves
  <2> QED
    BY <2>2, <2>3, <2>4
<1> QED
  BY <1>2, VerifiedOnesStep DEF VerifiedInTime, VerifiedOnes

\* A pair comes from the ECU that was asked and that the filter lets pass.
LEMMA PairsAreRealStep ==
  ASSUME ScanInv, Next
  PROVE  PairsAreReal'
<1> SUFFICES ASSUME trouble' \subseteq {"late"}, NEW j \in DOMAIN stage3_results'
             PROVE  /\ stage3_results'[j].send_id \in DOMAIN Ecus
                    /\ stage3_results'[j].recv_id = Ecus[stage3_results'[j].send_id]
  <2>1. Ecus' = Ecus
    BY TheCarStays DEF Ecus
  <2> QED
    BY <2>1 DEF PairsAreReal
<1>1. ScanTyped /\ OnlyTheAsked /\ PairsAreReal /\ trouble \subseteq {"late"}
  BY TroubleStays DEF ScanInv
<1>2. CASE j \in DOMAIN stage3_results /\ stage3_results'[j] = stage3_results[j]
  BY <1>1, <1>2 DEF PairsAreReal
<1>3. ASSUME PollStage3Listens, NEW p \in DOMAIN rx, curr_scan_id # 0,
             stage3_results'[j] = [send_id |-> keys[curr_scan_id], recv_id |-> rx[p].id]
      PROVE  /\ stage3_results'[j].send_id \in DOMAIN Ecus
             /\ stage3_results'[j].recv_id = Ecus[stage3_results'[j].send_id]
  <2>1. curr_stage = 3 /\ next = "ScanPoll"
    BY <1>3, Verifying
  <2>2. curr_scan_id >= 1 /\ rx \in Seq(Frame)
    BY <1>1, <1>3 DEF ScanTyped
  <2>3. rx[p] \in Heard(rx)
    BY <2>2 DEF Heard
  <2>4. keys[curr_scan_id] \in DOMAIN Ecus /\ rx[p] = FlowControl(Ecus[keys[curr_scan_id]])
    BY <1>1, <2>1, <2>2, <2>3 DEF OnlyTheAsked
  <2>5. rx[p].id = Ecus[keys[curr_scan_id]]
    BY <2>4 DEF FlowControl
  <2>6. stage3_results'[j].send_id = keys[curr_scan_id] /\ stage3_results'[j].recv_id = rx[p].id
    BY <1>3
  <2> QED
    BY <2>4, <2>5, <2>6
<1>4. CASE PollStage3Listens /\ next' # "panicked"
  <2>1. \/ j \in DOMAIN stage3_results /\ stage3_results'[j] = stage3_results[j]
        \/ \E p \in DOMAIN rx : /\ rx[p].shape = "fc" /\ curr_scan_id # 0
                /\ stage3_results'[j] = [send_id |-> keys[curr_scan_id], recv_id |-> rx[p].id]
    BY <1>4, PairsFound
  <2> QED
    BY <1>2, <1>3, <1>4, <2>1
<1> QED
  BY <1>2, <1>4, PairsStay

\* What is stored is about the pair of the same place.
IsOf(e, p) ==
  /\ p = [send_id |-> e.send_id, recv_id |-> e.recv_id]
  /\ e.kwp => e.send_id \in network.kwp
  /\ e.uds => e.send_id \in network.uds

LEMMA SupportIsTheEcusStep ==
  ASSUME ScanInv, Next
  PROVE  SupportIsTheEcus'
<1> SUFFICES ASSUME NEW i \in DOMAIN stage4_results'
             PROVE  IsOf(stage4_results'[i], stage3_results'[i])
  <2>1. network' = network
    BY TheCarStays
  <2> QED
    BY <2>1 DEF SupportIsTheEcus, IsOf
<1>1. /\ ScanTyped /\ Tried /\ curr_scan_id \in Nat
      /\ stage3_results \in Seq(Pair) /\ stage4_results \in Seq(Support)
  BY DEF ScanInv, ScanTyped
<1>2. \A k \in DOMAIN stage4_results : IsOf(stage4_results[k], stage3_results[k])
  BY DEF ScanInv, SupportIsTheEcus, IsOf
<1>3. CASE UNCHANGED <<stage3_results, stage4_results>>
  BY <1>2, <1>3
<1>4. CASE PollSession
  <2>1. /\ curr_stage \in {5, 6} /\ UNCHANGED stage3_results
    BY <1>4, TriesPair
  <2>2. CASE UNCHANGED stage4_results
    BY <1>3, <2>1, <2>2
  <2> DEFINE p == stage3_results[curr_scan_id + 1]
  <2>3. ASSUME ~(curr_scan_id >= Len(stage3_results)) PROVE p \in Pair
    BY <1>1, <2>3
  <2>4. ASSUME NEW ok \in BOOLEAN, ~(curr_scan_id >= Len(stage3_results)), curr_stage = 5,
               ok => p.send_id \in network.kwp,
               stage4_results' = Append(stage4_results, [send_id |-> p.send_id,
                                   recv_id |-> p.recv_id, kwp |-> ok, uds |-> FALSE])
        PROVE  IsOf(stage4_results'[i], stage3_results'[i])
    <3> DEFINE e == [send_id |-> p.send_id, recv_id |-> p.recv_id, kwp |-> ok, uds |-> FALSE]
    <3>1. /\ e.send_id = p.send_id /\ e.recv_id = p.recv_id /\ (e.kwp <=> ok) /\ ~e.uds
      OBVIOUS
    <3>2. p = [send_id |-> p.send_id, recv_id |-> p.recv_id]
      <4>1. p \in Pair
        BY <2>3, <2>4
      <4> HIDE DEF p
      <4> QED
        BY <4>1 DEF Pair
    <3>3. IsOf(e, p)
      <4> HIDE DEF e, p
      <4>1. p = [send_id |-> e.send_id, recv_id |-> e.recv_id]
        BY <3>1, <3>2
      <4>2. e.kwp => e.send_id \in network.kwp
        BY <2>4, <3>1
      <4> QED
        BY <3>1, <4>1, <4>2 DEF IsOf
    <3>4. curr_scan_id = Len(stage4_results)
      BY <1>1, <2>4 DEF Tried
    <3> HIDE DEF e
    <3>5. stage4_results' = Append(stage4_results, e)
      BY <2>4 DEF e
    <3>6. CASE i \in DOMAIN stage4_results
      <4>1. stage4_results'[i] = stage4_results[i]
        BY <1>1, <3>5, <3>6
      <4> QED
        BY <1>2, <2>1, <3>6, <4>1
    <3>7. CASE i \notin DOMAIN stage4_results
      <4>1. i = Len(stage4_results) + 1 /\ stage4_results'[i] = e
        BY <1>1, <3>5, <3>7
      <4>2. stage3_results'[i] = p
        BY <2>1, <3>4, <4>1
      <4> QED
        BY <3>3, <4>1, <4>2
    <3> QED
      BY <3>6, <3>7
  <2>5. ASSUME Place \in DOMAIN stage4_results, p.send_id \in network.uds,
               stage4_results' = [stage4_results EXCEPT ![Place].uds = TRUE]
        PROVE  IsOf(stage4_results'[i], stage3_results'[i])
    <3>1. Place = curr_scan_id + 1
      BY DEF Place
    <3>2. CASE i # Place
      <4>1. i \in DOMAIN stage4_results /\ stage4_results'[i] = stage4_results[i]
        BY <2>5, <3>2
      <4> QED
        BY <1>2, <2>1, <4>1
    <3>3. CASE i = Place
      <4> DEFINE e == stage4_results[i]
                 f == [e EXCEPT !.uds = TRUE]
      <4>1. stage4_results'[i] = f /\ i \in DOMAIN stage4_results
        BY <2>5, <3>3
      <4>2. e \in Support /\ IsOf(e, stage3_results[i])
        BY <1>1, <1>2, <4>1
      <4>3. stage3_results[i] = p
        BY <3>1, <3>3
      <4> HIDE DEF e
      <4>4. f.send_id = e.send_id /\ f.recv_id = e.recv_id /\ f.kwp = e.kwp
        BY <4>2 DEF Support
      <4> HIDE DEF f
      <4>5. stage3_results[i] = [send_id |-> f.send_id, recv_id |-> f.recv_id]
        BY <4>2, <4>4 DEF IsOf
      <4>6. f.send_id \in network.uds
        <5>1. p.send_id = f.send_id
          BY <4>3, <4>5
        <5> QED
          BY <2>5, <5>1
      <4>7. f.kwp => f.send_id \in network.kwp
        BY <4>2, <4>4 DEF IsOf
      <4>8. IsOf(f, stage3_results[i])
        BY <4>5, <4>6, <4>7 DEF IsOf
      <4> QED
        BY <2>1, <4>1, <4>8
    <3> QED
      BY <3>2, <3>3
  <2>6. CASE curr_scan_id >= Len(stage3_results)
    BY <1>4, <2>2, <2>6, TriesPair
  <2>7. CASE ~(curr_scan_id >= Len(stage3_results))
    <3>1. PICK ok \in BOOLEAN :
             /\ ok => p.send_id \in IF curr_stage = 5 THEN network.kwp ELSE network.uds
             /\ \/ /\ curr_stage = 5 /\ next' = next
                   /\ stage4_results' = Append(stage4_results, [send_id |-> p.send_id,
                              recv_id |-> p.recv_id, kwp |-> ok, uds |-> FALSE])
                \/ curr_stage = 6 /\ UNCHANGED <<stage4_results, next>>
                \/ /\ curr_stage = 6 /\ ok /\ Place \in DOMAIN stage4_results /\ next' = next
                   /\ stage4_results' = [stage4_results EXCEPT ![Place].uds = TRUE]
                \/ /\ curr_stage = 6 /\ Place \notin DOMAIN stage4_results
                   /\ next' = "panicked" /\ UNCHANGED stage4_results
      BY <1>4, <2>7, TriesPair
    <3> HIDE DEF p
    <3>2. CASE curr_stage = 5 /\ stage4_results' = Append(stage4_results, [send_id |-> p.send_id,
                              recv_id |-> p.recv_id, kwp |-> ok, uds |-> FALSE])
      BY <2>4, <2>7, <3>1, <3>2
    <3>3. CASE /\ curr_stage = 6 /\ ok /\ Place \in DOMAIN stage4_results
               /\ stage4_results' = [stage4_results EXCEPT ![Place].uds = TRUE]
      BY <2>5, <3>1, <3>3
    <3>4. CASE UNCHANGED stage4_results
      BY <2>2, <3>4
    <3> QED
      BY <3>1, <3>2, <3>3, <3>4
  <2> QED
    BY <2>6, <2>7
<1>5. CASE PollStage3Listens
  <2>1. curr_stage = 3 /\ UNCHANGED stage4_results
    BY <1>5, Verifying
  <2>2. stage4_results = <<>>
    BY <1>1, <2>1 DEF Tried
  <2> QED
    BY <2>1, <2>2
<1> QED
  BY <1>3, <1>4, <1>5, PairsStay, NotStored

\* Only chatter can be without data.
LEMMA NoEmptyFrame ==
  ASSUME ScanTyped, \A c \in DOMAIN Chatter : Chatter[c] # "empty", NEW places, places \subseteq DOMAIN rx
  PROVE  ~Panics(places)
<1> SUFFICES ASSUME NEW i \in places, rx[i].shape = "empty" PROVE FALSE
  BY DEF Panics
<1>1. rx \in Seq(Frame) /\ \A f \in Heard(rx) : OfTheCar(f)
  BY DEF ScanTyped
<1>2. OfTheCar(rx[i])
  BY <1>1 DEF Heard
<1>3. \A id : FlowControl(id).shape = "fc"
  BY DEF FlowControl
<1>4. rx[i].shape # "fc"
  OBVIOUS
<1> QED
  BY <1>2, <1>3, <1>4 DEF OfTheCar

LEMMA NoPanicStep ==
  ASSUME ScanInv, Next
  PROVE  NoPanicWhenFiltered'
<1> SUFFICES ASSUME ~unfiltered, "refused" \notin trouble', \A c \in DOMAIN Chatter : Chatter[c] # "empty",
                    next' = "panicked"
             PROVE  FALSE
  <2>1. Chatter' = Chatter /\ unfiltered' = unfiltered
    BY TheCarStays DEF Chatter
  <2> QED
    BY <2>1 DEF NoPanicWhenFiltered
<1>1. ScanTyped /\ Listed /\ Tried /\ NoPanicWhenFiltered /\ rx \in Seq(Frame) /\ curr_scan_id \in Nat
  BY DEF ScanInv, ScanTyped
<1>2. next # "panicked"
  BY <1>1, TroubleStays DEF NoPanicWhenFiltered
<1>3. CASE Start \/ Increment \/ Elapse
  BY <1>2, <1>3 DEF Start, Stay, Increment, EndListening, BeginVerifying, CoolDown, LaterStage, Elapse
<1>4. CASE Answer \/ Chat
  BY <1>2, <1>4 DEF Answer, Chat, Receive, scanVars
<1>5. CASE PollWaiting \/ PollStage2Ends \/ PollStage2Sends \/ PollStage3Ends
  BY <1>2, <1>5 DEF PollWaiting, PollStage2Ends, PollStage2Sends, PollStage3Ends
<1>6. CASE PollStage2Listens
  <2>1. NewIds \subseteq DOMAIN rx
    BY DEF NewIds, Read
  <2> QED
    BY <1>1, <1>2, <1>6, <2>1, Listening, NoEmptyFrame
<1>7. CASE PollStage3Sends
  BY <1>2, <1>7, SendsPair
<1>8. CASE PollStage3Listens
  <2>1. curr_stage = 3
    BY <1>8, Verifying
  <2>2. PICK found \in Seq(Nat) :
          /\ Heard(found) = {rx[p].id : p \in {q \in DOMAIN rx : rx[q].shape = "fc"}}
          /\ \/ /\ Panics(Read) \/ (found # <<>> /\ curr_scan_id = 0)
                /\ next' = "panicked" /\ UNCHANGED stage3_results
             \/ /\ ~Panics(Read) /\ ~(found # <<>> /\ curr_scan_id = 0) /\ next' = next
                /\ stage3_results' = PairsAnd(found)
    BY <1>8, Verifying
  <2>3. ~Panics(Read)
    BY <1>1, NoEmptyFrame DEF Read
  <2>4. found # <<>> /\ curr_scan_id = 0
    BY <1>2, <2>2, <2>3
  <2>5. rx = <<>>
    BY <1>1, <2>1, <2>4 DEF Listed
  <2>6. DOMAIN rx = {}
    BY <2>5
  <2>7. Heard(found) = {}
    BY <2>2, <2>6
  <2>8. 1 \in 1..Len(found)
    BY <2>4
  <2> QED
    BY <2>7, <2>8 DEF Heard
<1>9. CASE PollSession
  <2>1. curr_stage = 6 /\ ~(curr_scan_id >= Len(stage3_results)) /\ Place \notin DOMAIN stage4_results
    BY <1>2, <1>9, TriesPair
  <2>2. Len(stage4_results) = Len(stage3_results) /\ DOMAIN stage4_results = 1..Len(stage4_results)
    BY <1>1, <2>1 DEF Tried, ScanTyped
  <2>3. Len(stage3_results) \in Nat
    BY <1>1 DEF ScanTyped
  <2> QED
    BY <1>1, <2>1, <2>2, <2>3 DEF Place
<1> QED
  BY <1>3, <1>4, <1>5, <1>6, <1>7, <1>8, <1>9 DEF Next, Poll

LEMMA ScanInvInit ==
  ASSUME Init
  PROVE  ScanInv
<1>1. /\ network \in Networks /\ unfiltered \in BOOLEAN /\ expired = FALSE
      /\ curr_stage = 0 /\ curr_scan_id = 0 /\ next = "none" /\ can_traffic_id_list = {}
      /\ stage3_results = <<>> /\ stage4_results = <<>> /\ keys = <<>>
      /\ rx = <<>> /\ bus = {} /\ trouble = {}
  BY DEF Init
<1>2. DOMAIN stage2_results = {} /\ stage2_results = None
  BY DEF Init, None
<1>3. stage2_results \in [DOMAIN stage2_results -> Seq(Nat) \ {<<>>}]
  BY <1>2 DEF None
<1>4. IsFiniteSet({}) /\ Cardinality({}) = 0 /\ LastId \in Nat
  BY FS_EmptySet, ScannerAssumption
<1>5. Heard(rx) = {} /\ DOMAIN stage3_results = {} /\ DOMAIN stage4_results = {}
  BY <1>1, HeardEmpty
<1>6. ScanTyped
  <2>1. expired \in BOOLEAN
    BY <1>1, Zenon
  <2>2. stage3_results \in Seq(Pair) /\ stage4_results \in Seq(Support) /\ keys \in Seq(DOMAIN stage2_results)
        /\ rx \in Seq(Frame)
    BY <1>1
  <2> QED
    BY <1>1, <1>2, <1>3, <1>4, <1>5, <2>1, <2>2 DEF ScanTyped
<1>7. Searching
  BY <1>1, <1>2, <1>4 DEF Searching
<1>8. Listed /\ Tried
  BY <1>1 DEF Listed, Tried
<1>9. AskedOnce /\ OnlyTheAsked
  BY <1>1, <1>2, <1>5 DEF AskedOnce, OnlyTheAsked, Waits, Answered
<1>10. NotedInTime /\ VerifiedInTime
  BY <1>1, <1>2 DEF NotedInTime, VerifiedInTime
<1>11. PairsAreReal /\ SupportIsTheEcus /\ NoPanicWhenFiltered
  BY <1>1, <1>5 DEF PairsAreReal, SupportIsTheEcus, NoPanicWhenFiltered
<1> QED
  BY <1>6, <1>7, <1>8, <1>9, <1>10, <1>11 DEF ScanInv

\* A step of something else.
LEMMA ScanInvSame ==
  ASSUME ScanInv, UNCHANGED vars
  PROVE  ScanInv'
<1> USE DEF vars, scanVars, adapterVars
<1>1. /\ Ecus' = Ecus /\ Chatter' = Chatter /\ Scannable' = Scannable
      /\ Waiting' = Waiting /\ Paired' = Paired
  BY DEF Ecus, Chatter, Scannable, Waiting, Waits, FlowControl, Paired
<1>2. \A x : (OfTheCar(x)' <=> OfTheCar(x)) /\ (Waits(x)' <=> Waits(x)) /\ (Answered(x)' <=> Answered(x))
  BY <1>1 DEF OfTheCar, Waits, Answered, FlowControl
<1>3. ScanTyped'
  BY <1>1, <1>2 DEF ScanInv, ScanTyped
<1>4. Searching' /\ Listed' /\ Tried'
  BY <1>1 DEF ScanInv, Searching, Listed, Tried
<1>5. AskedOnce'
  BY <1>1, <1>2 DEF ScanInv, AskedOnce
<1>6. OnlyTheAsked'
  BY <1>1, <1>2 DEF ScanInv, OnlyTheAsked, FlowControl
<1>7. NotedInTime' /\ VerifiedInTime'
  BY <1>1, <1>2 DEF ScanInv, NotedInTime, VerifiedInTime
<1>8. PairsAreReal' /\ SupportIsTheEcus' /\ NoPanicWhenFiltered'
  BY <1>1 DEF ScanInv, PairsAreReal, SupportIsTheEcus, NoPanicWhenFiltered
<1> QED
  BY <1>3, <1>4, <1>5, <1>6, <1>7, <1>8 DEF ScanInv

LEMMA ScanInvStep ==
  ASSUME ScanInv, Next
  PROVE  ScanInv'
<1>1. ScanTyped'
  BY ScanTypedStep
<1> QED
  BY <1>1, SearchingStep, ListedStep, TriedStep, AskedOnceStep, OnlyTheAskedStep, NotedInTimeStep,
     VerifiedInTimeStep, PairsAreRealStep, SupportIsTheEcusStep, NoPanicStep DEF ScanInv

\* What the invariant says of the bounds, and of the ECUs at the end.
LEMMA ScanInvTyped ==
  ASSUME ScanInv
  PROVE  TypeOK
<1>1. ScanTyped /\ Searching /\ Listed /\ Tried
  BY DEF ScanInv
<1>2. /\ curr_stage \in 0..7 /\ expired \in BOOLEAN /\ curr_scan_id \in Nat
      /\ stage3_results \in Seq(Pair) /\ stage4_results \in Seq(Support) /\ keys \in Seq(DOMAIN stage2_results)
      /\ next \in {"none", "panicked", "ScanPoll", "IncrementStage"}
      /\ DOMAIN stage2_results \subseteq 1..LastId - 1
      /\ bus \subseteq DOMAIN Ecus /\ trouble \subseteq {"late", "again", "unheard", "refused"}
  BY <1>1 DEF ScanTyped
<1>3. Cardinality(can_traffic_id_list) \in Nat /\ LastId \in Nat
  BY <1>1, FS_CardinalityType, ScannerAssumption DEF ScanTyped
<1>4. Len(keys) \in Nat /\ Len(stage3_results) \in Nat /\ Len(stage4_results) \in Nat /\ Len(<<>>) = 0
  BY <1>2
<1>5. curr_stage < 3 => curr_scan_id \in 0..LastId + Cardinality(can_traffic_id_list)
  BY <1>1, <1>2, <1>3 DEF Searching
<1>6. curr_stage = 3 => curr_scan_id \in 0..Len(keys)
  BY <1>1, <1>2, <1>4 DEF Listed
<1>7. curr_stage > 3 => curr_scan_id \in 0..Len(stage3_results)
  <2>1. curr_stage = 4 \/ curr_stage = 5 \/ curr_stage \in {6, 7} => curr_scan_id \in 0..Len(stage3_results)
    BY <1>1, <1>2, <1>4 DEF Tried
  <2> QED
    BY <1>2, <2>1
<1>8. \A s \in DOMAIN stage2_results : stage2_results[s] # <<>>
  BY <1>1 DEF ScanTyped
<1>9. DOMAIN keys \subseteq 1..Cardinality(DOMAIN stage2_results)
  <2>1. CASE keys = <<>>
    BY <2>1
  <2>2. CASE curr_stage >= 3
    <3>1. IsFiniteSet(DOMAIN stage2_results)
      <4>1. IsFiniteSet(1..LastId - 1)
        BY ScannerAssumption, FS_Interval
      <4> QED
        BY <1>2, <4>1, FS_Subset
    <3>2. Len(keys) = Cardinality(DOMAIN stage2_results)
      BY <1>1, <2>2, <3>1, ListingOf DEF Listed
    <3> QED
      BY <1>2, <3>2
  <2> QED
    BY <1>1, <1>2, <2>1, <2>2 DEF Searching
<1>10. Len(stage4_results) <= Len(stage3_results)
  <2>1. \/ curr_stage <= 4 \/ curr_stage = 5 \/ curr_stage \in {6, 7}
    BY <1>2
  <2> QED
    BY <1>1, <1>4, <2>1 DEF Tried
<1>11. curr_scan_id \in 0..(CASE curr_stage < 3 -> LastId + Cardinality(can_traffic_id_list)
                            [] curr_stage = 3 -> Len(keys)
                            [] OTHER -> Len(stage3_results))
  <2>1. CASE curr_stage < 3
    BY <1>2, <1>5, <2>1
  <2>2. CASE curr_stage = 3
    BY <1>6, <2>2
  <2>3. CASE curr_stage > 3
    BY <1>2, <1>7, <2>3
  <2> QED
    BY <1>2, <2>1, <2>2, <2>3
<1> QED
  BY <1>2, <1>8, <1>9, <1>10, <1>11 DEF TypeOK

LEMMA ScanInvFinds ==
  ASSUME ScanInv
  PROVE  NoEcuMissed
<1> SUFFICES ASSUME trouble = {}, curr_stage >= 4, next # "panicked",
                    NEW s \in DOMAIN Ecus \ (can_traffic_id_list \cup {0, LastId})
             PROVE  s \in Paired
  BY DEF NoEcuMissed, Paired
<1>1. ScanTyped /\ Listed /\ NotedInTime /\ VerifiedInTime /\ curr_stage \in 0..7
  BY DEF ScanInv, ScanTyped
<1>2. s \in Scannable
  BY <1>1, TheCar DEF Scannable
<1>3. s \in DOMAIN stage2_results
  BY <1>1, <1>2 DEF NotedInTime
<1>4. PICK i \in DOMAIN keys : keys[i] = s
  BY <1>1, <1>3 DEF Listed, Listings
<1> QED
  BY <1>1, <1>4 DEF VerifiedInTime

(* For every car, every adapter and every identifier that the scan ends at: *)
(* what is noted, sorted out and saved in the seven stages are the car's    *)
(* ECUs, and the scan panics only for the reasons stated.                   *)
THEOREM ScanFinds == Spec => []ScanFindsEcus
<1>1. Init => ScanInv
  BY ScanInvInit
<1>2. ScanInv /\ [Next]_vars => ScanInv'
  BY ScanInvStep, ScanInvSame
<1>3. ScanInv => ScanFindsEcus
  <2> SUFFICES ASSUME ScanInv PROVE ScanFindsEcus
    OBVIOUS
  <2>1. PairsAreReal /\ SupportIsTheEcus /\ NoPanicWhenFiltered
    BY DEF ScanInv
  <2> QED
    BY <2>1, ScanInvTyped, ScanInvFinds DEF ScanFindsEcus
<1> QED
  BY <1>1, <1>2, <1>3, PTL DEF Spec
=============================================================================

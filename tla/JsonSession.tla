------------------------------ MODULE JsonSession ------------------------------
(***************************************************************************)
(* The session an ECU's JSON file describes (struct JsonDiagSession), with *)
(* its ServiceSelector and its tables of trouble codes.                    *)
(*                                                                         *)
(* JsonOffers is what the view offers, JsonUpdate(m) what a message does.  *)
(* A message that update returns is not handled at once: it is posted, and *)
(* comes back when its future has run, after whatever was handled between. *)
(* A view is drawn when a batch of messages has been handled: what was     *)
(* pressed while update was waiting for the ECU was pressed on the view    *)
(* drawn before, whatever the messages before it have changed.             *)
(* Commands to the ECU are DiagServer's subject; here each succeeds or     *)
(* not.  Texts that are only sent on (security access, logs) are data.     *)
(***************************************************************************)
EXTENDS Naturals, Sequences, FiniteSets

CONSTANTS
  Variants, Patternless,  \* the ECU's variants, those without a pattern
  Services,   \* records [variant, list, input]: list "read" (downloads) or
              \* "write" (functions), input whether input_params is not empty
  Queries,    \* search texts; "" is the empty one
  Matching,   \* per query: the services whose names contain it
  Longer,     \* pairs <<p, q>> of queries: q is the longer text
  Dtcs, MaxDtcs,  \* trouble codes; bound: codes stored at once
  MaxPosted,  \* bound: messages posted and not yet handled
  MaxPresses, \* bound: messages handled between two drawings
  Nothing     \* None

ASSUME JsonAssumption ==
  /\ Patternless \subseteq Variants /\ MaxDtcs \in Nat /\ MaxPosted \in Nat /\ MaxPresses \in Nat
  /\ Nothing \notin Services /\ Nothing \notin Dtcs
  /\ "" \in Queries /\ Matching[""] = Services

VARIABLES
  page_state, variant,
  selector,           \* the ServiceSelector
  looping_service,
  logged_dtcs,
  table_dtc,          \* the codes listed, and the row highlighted
  env_table,          \* whose freeze frame is listed
  posted,             \* messages returned by update, not yet handled, each with
                      \* its number among its like: the same may be posted twice
  overtaken,          \* history: the loop's setting changed while one was posted
  json_drawn, json_handled, \* what the view drawn offers; messages handled since
  outdated,           \* history: a press was handled that the page no longer offered
  json_panicked

pageVars == <<page_state, variant, selector, looping_service, logged_dtcs, table_dtc,
              env_table, posted, overtaken>>
jsonVars == <<pageVars, json_drawn, json_handled, outdated, json_panicked>>
-----------------------------------------------------------------------------
Views == {"read", "write", "actuate"}
List(v, view) == {s \in Services : s.variant = v /\ s.list = view}

\* get_shown_services.
ShownOf(services, query) == services \cap Matching[query]

NewSelector(v) ==
  [view |-> "read", query |-> "", shown |-> List(v, "read"), selected |-> Nothing,
   can_execute |-> FALSE, is_loop |-> FALSE]

Msg(name) == [m |-> name]
PickLoop(s) == [m |-> "PickLoopService", service |-> s]
LoopPosted == \E p \in posted : p[1].m = "PickLoopService"
-----------------------------------------------------------------------------
\* The graph button: can_execute == view_selection[0].
GraphOffered(x) == x.can_execute = (x.view = "read")

SelectorOffers ==
  {[m |-> "View", view |-> v] : v \in Views}
    \cup {[m |-> "Search", query |-> q] : q \in Queries}
    \cup {[m |-> "PickService", service |-> s] : s \in selector.shown}
    \cup IF selector.selected = Nothing THEN {}
         ELSE IF selector.is_loop THEN {Msg("StopLoopService")}
         ELSE (IF selector.can_execute THEN {Msg("ExecService")} ELSE {})
                \cup (IF GraphOffered(selector) THEN {Msg("BeginLoopService")} ELSE {})

\* draw_main_ui.  (Commands that leave the page as it is, KWP mode and security
\* access, are one message.)
MainOffers ==
  SelectorOffers \cup {Msg("Command"), Msg("ReadInfo"), Msg("ReadErrors")}
    \cup IF Cardinality(Variants) > 1
         THEN {[m |-> "SelectVariant", variant |-> v] : v \in Variants} ELSE {}

\* draw_error_ui, with the rows of its table.
ErrorOffers ==
  {Msg("ReadErrors"), [m |-> "Navigate", page |-> "Main"]}
    \cup IF logged_dtcs = <<>> THEN {}
         ELSE {Msg("ClearErrors")}
                \cup {[m |-> "Select", row |-> i] : i \in DOMAIN table_dtc.rows}

InfoOffers == {[m |-> "Navigate", page |-> "Main"]}

JsonOffers ==
  CASE page_state = "Main"  -> MainOffers
    [] page_state = "Error" -> ErrorOffers
    [] OTHER                -> InfoOffers

\* subscription: the graph's next reading.
JsonTicks == IF looping_service # Nothing THEN {Msg("LoopRead")} ELSE {}
Current == JsonOffers \cup JsonTicks

JsonInit ==
  /\ page_state = "Main" /\ variant \in Variants \ Patternless
  /\ selector = NewSelector(variant)
  /\ looping_service = Nothing /\ logged_dtcs = <<>>
  /\ table_dtc = [rows |-> <<>>, selected_row |-> 1] /\ env_table = Nothing
  /\ posted = {} /\ overtaken = FALSE
  /\ json_drawn = Current /\ json_handled = 0 /\ outdated = FALSE /\ json_panicked = FALSE
-----------------------------------------------------------------------------
Post(message) ==
  /\ Cardinality(posted) < MaxPosted
  /\ \E copy \in 1..MaxPosted :
       /\ <<message, copy>> \notin posted /\ (copy = 1 \/ <<message, copy - 1>> \in posted)
       /\ posted' = posted \cup {<<message, copy>>}
Readings == UNION {[1..n -> Dtcs] : n \in 0..MaxDtcs}
KeepTables == UNCHANGED <<logged_dtcs, table_dtc, env_table>>
KeepServices == UNCHANGED <<variant, selector, looping_service, overtaken>>

\* Fault: a graph goes on when another variant is selected.
SelectVariant_KeepsLoop(v) ==
  /\ variant' = v /\ selector' = NewSelector(v)
  /\ UNCHANGED <<looping_service, overtaken, page_state, posted>> /\ KeepTables

SelectVariant(v) ==
  /\ IF v \in Patternless THEN KeepServices
     ELSE /\ variant' = v /\ selector' = NewSelector(v) /\ looping_service' = Nothing
          /\ overtaken' = (overtaken \/ LoopPosted)
  /\ UNCHANGED <<page_state, posted>> /\ KeepTables

ReadInfo ==
  /\ Post([m |-> "Navigate", page |-> "ECUInfo"])
  /\ UNCHANGED page_state /\ KeepServices /\ KeepTables

\* Fault: the rows stay as they are until the page is entered anew.
ReadErrors_KeepsRows ==
  /\ \E codes \in Readings :
       /\ logged_dtcs' = codes
       /\ IF page_state = "Main"
          THEN /\ table_dtc' = [rows |-> codes, selected_row |-> 1]
               /\ Post([m |-> "Navigate", page |-> "Error"])
          ELSE UNCHANGED <<table_dtc, posted>>
  /\ UNCHANGED <<page_state, env_table>> /\ KeepServices

\* The rows are made anew, the freeze frame's are not.
ReadErrors ==
  /\ \/ \E codes \in Readings :
          /\ logged_dtcs' = codes /\ table_dtc' = [rows |-> codes, selected_row |-> 1]
          /\ IF page_state = "Main" THEN Post([m |-> "Navigate", page |-> "Error"])
                                    ELSE UNCHANGED posted
     \/ logged_dtcs' = <<>> /\ UNCHANGED <<table_dtc, posted>>       \* an error
  /\ UNCHANGED <<page_state, env_table>> /\ KeepServices

\* Fault: only the first code is forgotten.
ClearErrors_First ==
  /\ logged_dtcs' = IF logged_dtcs = <<>> THEN <<>> ELSE Tail(logged_dtcs)
  /\ UNCHANGED <<page_state, table_dtc, env_table, posted>> /\ KeepServices

ClearErrors ==
  /\ logged_dtcs' \in {<<>>, logged_dtcs}                             \* or an error
  /\ UNCHANGED <<page_state, table_dtc, env_table, posted>> /\ KeepServices

\* The row is marked first; then logged_dtcs[y] panics unless SelectInRange.
SelectInRange(row) == row \in DOMAIN logged_dtcs

\* Fault: the row marked is the one above.
SelectRow_Above(row) ==
  /\ table_dtc' = [table_dtc EXCEPT !.selected_row = row - 1]
  /\ env_table' = IF SelectInRange(row) THEN logged_dtcs[row] ELSE env_table
  /\ UNCHANGED <<page_state, logged_dtcs, posted>> /\ KeepServices

SelectRow(row) ==
  /\ table_dtc' = [table_dtc EXCEPT !.selected_row = row]
  /\ env_table' = IF SelectInRange(row) THEN logged_dtcs[row] ELSE env_table
  /\ UNCHANGED <<page_state, logged_dtcs, posted>> /\ KeepServices

\* ServiceSelector::update.
SelectorSet(x) ==
  /\ selector' = x
  /\ UNCHANGED <<page_state, variant, looping_service, posted, overtaken>> /\ KeepTables

\* Fault: the service selected stays selected.
View_KeepsSelected(view) ==
  SelectorSet([selector EXCEPT !.view = view,
                 !.shown = ShownOf(List(variant, view), selector.query)])

View(view) ==
  SelectorSet([selector EXCEPT !.view = view, !.selected = Nothing, !.can_execute = FALSE,
                 !.shown = ShownOf(List(variant, view), selector.query)])

\* Adding to the text narrows what is shown; else the list is searched.
Search(q) ==
  SelectorSet([selector EXCEPT !.query = q,
    !.shown = ShownOf(IF <<selector.query, q>> \in Longer THEN selector.shown
                      ELSE List(variant, selector.view), q)])

PickService(s) ==
  SelectorSet([selector EXCEPT !.selected = s, !.can_execute = ~s.input])

BeginLoop ==
  /\ IF selector.selected = Nothing THEN UNCHANGED <<selector, posted>>
     ELSE /\ selector' = [selector EXCEPT !.is_loop = TRUE]
          /\ Post(PickLoop(selector.selected))
  /\ UNCHANGED <<page_state, variant, looping_service, overtaken>> /\ KeepTables

StopLoop ==
  /\ selector' = [selector EXCEPT !.is_loop = FALSE] /\ looping_service' = Nothing
  /\ overtaken' = (overtaken \/ LoopPosted)
  /\ UNCHANGED <<page_state, variant, posted>> /\ KeepTables

\* (selected_service.unwrap() panics unless ExecReady.)
ExecReady == selector.selected # Nothing
Exec ==
  /\ IF ExecReady THEN Post(Msg("ExecuteService"))
                  ELSE UNCHANGED posted
  /\ UNCHANGED page_state /\ KeepServices /\ KeepTables

SetLoop(s) ==
  /\ looping_service' = s
  /\ UNCHANGED <<page_state, variant, selector, overtaken>> /\ KeepTables

Navigate(target) ==
  /\ page_state' = target
  /\ KeepServices /\ KeepTables

JsonUpdate(msg) ==
  \/ msg.m = "SelectVariant" /\ SelectVariant(msg.variant)
  \/ msg.m = "Navigate" /\ Navigate(msg.page) /\ UNCHANGED posted
  \/ msg.m = "ReadInfo" /\ ReadInfo
  \/ msg.m = "ReadErrors" /\ ReadErrors
  \/ msg.m = "ClearErrors" /\ ClearErrors
  \/ msg.m = "Select" /\ SelectRow(msg.row)
  \/ msg.m = "View" /\ View(msg.view)
  \/ msg.m = "Search" /\ Search(msg.query)
  \/ msg.m = "PickService" /\ PickService(msg.service)
  \/ msg.m = "BeginLoopService" /\ BeginLoop
  \/ msg.m = "StopLoopService" /\ StopLoop
  \/ msg.m = "ExecService" /\ Exec
  \/ msg.m \in {"Command", "LoopRead"} /\ UNCHANGED pageVars

JsonPanics(msg) ==
  \/ msg.m = "Select" /\ ~SelectInRange(msg.row)
  \/ msg.m = "ExecService" /\ ~ExecReady

\* A batch of messages, in any order: of the user and the timer, all of the view
\* drawn last, and of what was posted.  update does not ask for the page shown.
Batch ==
  /\ ~json_panicked /\ json_handled < MaxPresses
  /\ json_handled' = json_handled + 1 /\ UNCHANGED json_drawn

Press ==
  /\ Batch
  /\ \E msg \in json_drawn :
       /\ JsonUpdate(msg) /\ json_panicked' = JsonPanics(msg)
       /\ outdated' = (outdated \/ msg \notin Current)

Posted(p) == <<p[1], p[2] + 1>> \notin posted /\ posted' = posted \ {p}
Deliver ==
  /\ Batch /\ UNCHANGED <<outdated, json_panicked>>
  /\ \E p \in posted : LET msg == p[1] IN
       \/ msg.m = "PickLoopService" /\ SetLoop(msg.service) /\ Posted(p)
       \/ msg.m = "Navigate" /\ Navigate(msg.page) /\ Posted(p)
       \/ msg.m = "ExecuteService" /\ KeepServices /\ KeepTables /\ UNCHANGED page_state /\ Posted(p)

Redraw ==
  /\ ~json_panicked /\ json_handled > 0 /\ json_handled' = 0
  /\ json_drawn' = Current
  /\ UNCHANGED <<pageVars, outdated, json_panicked>>

JsonNext == Press \/ Deliver \/ Redraw
JsonSpec == JsonInit /\ [][JsonNext]_jsonVars
-----------------------------------------------------------------------------
\* What a view may offer.
JsonMessages ==
  {Msg(name) : name \in {"Command", "ReadInfo", "ReadErrors", "ClearErrors", "BeginLoopService",
                         "StopLoopService", "ExecService", "LoopRead"}}
    \cup {[m |-> "SelectVariant", variant |-> v] : v \in Variants}
    \cup {[m |-> "Navigate", page |-> "Main"]}
    \cup {[m |-> "Select", row |-> i] : i \in 1..MaxDtcs}
    \cup {[m |-> "View", view |-> v] : v \in Views}
    \cup {[m |-> "Search", query |-> q] : q \in Queries}
    \cup {[m |-> "PickService", service |-> s] : s \in Services}

PageTypeOK ==
  /\ page_state \in {"Main", "ECUInfo", "Error"} /\ variant \in Variants
  /\ selector \in [view : Views, query : Queries, shown : SUBSET Services,
                   selected : Services \cup {Nothing}, can_execute : BOOLEAN, is_loop : BOOLEAN]
  /\ looping_service \in Services \cup {Nothing}
  /\ logged_dtcs \in Readings /\ table_dtc.rows \in Readings /\ table_dtc.selected_row \in Nat \ {0}
  /\ env_table \in Dtcs \cup {Nothing} /\ overtaken \in BOOLEAN

JsonTypeOK ==
  /\ PageTypeOK
  /\ json_drawn \subseteq JsonMessages /\ json_handled \in 0..MaxPresses
  /\ outdated \in BOOLEAN /\ json_panicked \in BOOLEAN

(* Whatever is typed, pasted, switched or reselected, on whatever view:    *)
(* the services shown are the variant's, of the list in view, and match    *)
(* the query; what can be executed needs no input.  So is the one selected *)
(* the variant's, unless a press came that the page no longer offered: a   *)
(* service of the list before can still be picked.                         *)
SelectorFits ==
  /\ selector.shown \subseteq ShownOf(List(variant, selector.view), selector.query)
  /\ selector.can_execute => selector.selected # Nothing /\ ~selector.selected.input
  /\ selector.selected # Nothing /\ ~outdated => selector.selected \in List(variant, selector.view)

(* The selector knows of the graph that is read every 500 ms, so that it   *)
(* can be stopped, unless the graph was stopped, or the variant changed,   *)
(* while it was being started; and its service is the present variant's.   *)
LoopCanBeStopped ==
  ~overtaken /\ looping_service # Nothing =>
    /\ selector.is_loop
    /\ ~outdated => looping_service.variant = variant

(* The codes on the page are those that were read last, so that the row    *)
(* pressed is the code whose freeze frame is shown.                        *)
RowsAreLogged == logged_dtcs # <<>> => table_dtc.rows = logged_dtcs

(* What a button unwraps, and the row it indexes, are there whatever was   *)
(* handled before, as long as the page would still offer the button; the   *)
(* first press on a view is never one it no longer offers.                 *)
PressesArePrepared ==
  /\ json_panicked => outdated
  /\ json_handled = 0 => json_drawn = Current

(* What the page shows is the variant's, the query's and the last reading's, *)
(* and what it offers can be done, although messages overtake each other.  *)
SessionPageFits ==
  /\ JsonTypeOK
  /\ SelectorFits /\ RowsAreLogged /\ PressesArePrepared /\ LoopCanBeStopped
=============================================================================

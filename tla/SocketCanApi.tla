------------------------------ MODULE SocketCanApi ------------------------------
(***************************************************************************)
(* The SocketCAN adapter as its clones use it (struct SocketCanAPI).       *)
(*                                                                         *)
(* The two sockets are shared by all clones; the table of CAN filters and  *)
(* the flag that ISO-TP is wanted are each clone's own.  The kernel's      *)
(* socket (external) applies the set of filters written last.  Reading     *)
(* ISO-TP keeps the socket's lock until the read's time is up.             *)
(***************************************************************************)
EXTENDS Naturals, FiniteSets

CONSTANTS
  Pages,       \* handles of the UI thread, one per page of the window
  Servers,     \* handles of diagnostic servers: they read, write and close ISO-TP
  FilterIds,   \* the filters callers ask for
  Slots,       \* the slots of can_filters (0..9 in the code)
  Nothing,     \* None
  Everything   \* the kernel's filter before one is written

ASSUME SocketCanAssumption ==
  /\ Slots \subseteq Nat /\ Slots # {}
  /\ Nothing \notin Pages \cup Servers \cup FilterIds /\ Nothing # Everything
  /\ "can" \notin FilterIds
  /\ \A S \in SUBSET FilterIds : S # Nothing /\ S # Everything
  /\ Pages \cap Servers = {}

VARIABLES
  can_socket,    \* None, or the filters the kernel applies
  can_filters,   \* per page: its table
  isotp_socket,  \* None, or the identifier it was opened for
  isotp_lock,    \* the handle that reads ISO-TP just now
  isotp_in_use,  \* per page
  opening,       \* the page that has opened a socket and will store it, and which
  users          \* history: the pages that used the CAN socket since it was stored

skVars == <<can_socket, can_filters, isotp_socket, isotp_lock, isotp_in_use,
            opening, users>>
-----------------------------------------------------------------------------
NoFilters == [i \in Slots |-> Nothing]
Wanted(filters) == {filters[i] : i \in Slots} \ {Nothing}
FirstFree(filters) ==
  CHOOSE i \in Slots : filters[i] = Nothing
                       /\ \A j \in Slots : filters[j] = Nothing => i <= j

SkInit ==
  /\ can_socket = Nothing /\ can_filters = [p \in Pages |-> NoFilters]
  /\ isotp_socket = Nothing /\ isotp_lock = Nothing
  /\ isotp_in_use = [p \in Pages |-> FALSE]
  /\ opening = Nothing /\ users = {}

\* The UI thread makes one call at a time, and so does a server.
UiFree == opening = Nothing /\ isotp_lock \notin Pages
Unlocked == isotp_lock = Nothing

\* close_can_interface: the write guard is dropped, the socket is not.
ForgetFilters(p) ==
  IF can_socket = Nothing THEN can_filters
  ELSE [can_filters EXCEPT ![p] = NoFilters]

CloseCan(p) ==
  /\ UiFree
  /\ can_filters' = ForgetFilters(p)
  /\ UNCHANGED <<can_socket, isotp_socket, isotp_lock, isotp_in_use, opening, users>>

\* Fault: a page that opens the socket anew keeps its table.
OpenCan_KeepsTable(p) ==
  /\ UiFree
  /\ opening' = [page |-> p, socket |-> "can"]
  /\ UNCHANGED <<can_socket, can_filters, isotp_socket, isotp_lock, isotp_in_use, users>>

\* open_can_interface closes first; the new socket is opened, then stored.
OpenCan(p) ==
  /\ UiFree
  /\ can_filters' = ForgetFilters(p)
  /\ opening' \in {Nothing, [page |-> p, socket |-> "can"]}      \* error or socket
  /\ UNCHANGED <<can_socket, isotp_socket, isotp_lock, isotp_in_use, users>>

StoreCan ==
  /\ opening # Nothing /\ opening.socket = "can"
  /\ can_socket' = Everything
  /\ users' = {opening.page}
  /\ opening' = Nothing
  /\ UNCHANGED <<can_filters, isotp_socket, isotp_lock, isotp_in_use>>

\* write_filters: without a socket, or when the kernel refuses, an error.
WriteFilters(table) == can_socket # Nothing /\ can_socket' = Wanted(table)

\* The first free slot; undone when the filters cannot be written.
AddCanFilter(p, f) ==
  /\ UiFree /\ \E i \in Slots : can_filters[p][i] = Nothing
  /\ LET added == [can_filters EXCEPT ![p][FirstFree(can_filters[p])] = f] IN
       \/ WriteFilters(added[p]) /\ can_filters' = added
       \/ UNCHANGED <<can_socket, can_filters>>
  /\ users' = users \cup {p}
  /\ UNCHANGED <<isotp_socket, isotp_lock, isotp_in_use, opening>>

\* The slot is emptied first and stays empty when the write fails.
RemCanFilter(p, i) ==
  /\ UiFree
  /\ LET left == [can_filters EXCEPT ![p][i] = Nothing] IN
       /\ can_filters' = left
       /\ WriteFilters(left[p]) \/ UNCHANGED can_socket
  /\ users' = users \cup {p}
  /\ UNCHANGED <<isotp_socket, isotp_lock, isotp_in_use, opening>>

OpenIso(p) ==
  /\ UiFree
  /\ can_filters' = ForgetFilters(p)
  /\ isotp_in_use' = [isotp_in_use EXCEPT ![p] = TRUE]
  /\ UNCHANGED <<can_socket, isotp_socket, isotp_lock, opening, users>>

\* add_iso15765_filter opens the socket; refused while there is one.
AddIsoFilter(p, f) ==
  /\ UiFree /\ isotp_socket = Nothing /\ Unlocked
  /\ opening' \in {Nothing, [page |-> p, socket |-> f]}         \* error or socket
  /\ UNCHANGED <<can_socket, can_filters, isotp_socket, isotp_lock, isotp_in_use, users>>

StoreIso ==
  /\ opening # Nothing /\ opening.socket # "can" /\ Unlocked
  /\ isotp_socket' = opening.socket
  /\ opening' = Nothing
  /\ UNCHANGED <<can_socket, can_filters, isotp_lock, isotp_in_use, users>>

\* close_iso15765_interface takes the socket; a server's handle is a clone, so
\* the page's flag stays.  rem_iso15765_filter leaves the flag as well.
CloseIso(h) ==
  /\ h \in Pages => UiFree
  /\ Unlocked
  /\ isotp_socket' = Nothing
  /\ \/ h \in Pages /\ isotp_in_use' = [isotp_in_use EXCEPT ![h] = FALSE]
     \/ UNCHANGED isotp_in_use
  /\ UNCHANGED <<can_socket, can_filters, isotp_lock, opening, users>>

BeginReadIso(h) ==
  /\ h \in Pages => UiFree
  /\ Unlocked /\ isotp_socket # Nothing
  /\ isotp_lock' = h
  /\ UNCHANGED <<can_socket, can_filters, isotp_socket, isotp_in_use, opening, users>>

\* The time is up, or max_msgs have come (looked at only without a time).
EndReadIso(h) ==
  /\ isotp_lock = h
  /\ isotp_lock' = Nothing
  /\ UNCHANGED <<can_socket, can_filters, isotp_socket, isotp_in_use, opening, users>>
-----------------------------------------------------------------------------
SkNext ==
  \/ \E p \in Pages :
       \/ CloseCan(p) \/ OpenCan(p) \/ OpenIso(p)
       \/ \E f \in FilterIds : AddCanFilter(p, f) \/ AddIsoFilter(p, f)
       \/ \E i \in Slots : RemCanFilter(p, i)
  \/ \E h \in Pages \cup Servers : CloseIso(h) \/ BeginReadIso(h) \/ EndReadIso(h)
  \/ StoreCan \/ StoreIso
-----------------------------------------------------------------------------
SkTypeOK ==
  /\ can_socket \in (SUBSET FilterIds) \cup {Nothing, Everything}
  /\ can_filters \in [Pages -> [Slots -> FilterIds \cup {Nothing}]]
  /\ isotp_socket \in FilterIds \cup {Nothing}
  /\ isotp_lock \in Pages \cup Servers \cup {Nothing}
  /\ isotp_in_use \in [Pages -> BOOLEAN]
  /\ opening \in [page : Pages, socket : FilterIds \cup {"can"}] \cup {Nothing}
  /\ users \subseteq Pages

(* The filters live in each clone, the socket in all of them.  A page that *)
(* is alone in using the socket since it was stored has every filter of    *)
(* its table applied, although closing leaves the old socket in place.     *)
SoleUserFiltersApplied ==
  \A p \in Pages :
    users \subseteq {p} /\ Wanted(can_filters[p]) # {} =>
      can_socket \notin {Nothing, Everything} /\ Wanted(can_filters[p]) \subseteq can_socket
=============================================================================

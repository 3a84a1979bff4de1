----------------------------- MODULE DeviceList -----------------------------
(***************************************************************************)
(* The list of devices the window shows, and the devices rows it leans on: *)
(* list_devices of device/mod.rs with the overlay of lib.rs, the session   *)
(* cache of Wi-Fi cards (wifi_cache.rs), and the row that an install       *)
(* writes (device_row_for of lib.rs, record_install of installs.rs).       *)
(*                                                                         *)
(* A read over USB gives a phone's own name, or none; one over netmuxd may *)
(* give another phone's.  A name is the phone it belongs to.               *)
(***************************************************************************)
CONSTANTS
    Phone,      \* by UDID
    NoName      \* a read that failed, a name that is only the UDID

ASSUME NameAssumption == NoName \notin Phone

VARIABLES
    plugged,    \* phones on USB: with none, usbmuxd has exited
    card,       \* the session cache: the name each Wi-Fi card carries
    rowName,    \* the devices table: the name of each row
    doubted,    \* rows whose name was last taken from a Wi-Fi card
    listing,    \* where list_devices is
    list        \* the rows it has so far

listVars == <<plugged, card, rowName, doubted, listing, list>>

Name == Phone \cup {NoName}

\* f is a partial function from the phones to S.
IsSome(f, S) == DOMAIN f \subseteq Phone /\ f \in [DOMAIN f -> S]

Row == [wifi: BOOLEAN, name: Name]

ListTypeOK ==
    /\ plugged \subseteq Phone
    /\ IsSome(card, Name) /\ IsSome(rowName, Name)
    /\ doubted \subseteq DOMAIN rowName
    /\ listing \in {"idle", "merge", "overlay", "shown"}
    /\ IsSome(list, Row)

Empty == [p \in {} |-> NoName]

ListInit ==
    /\ plugged = {}
    /\ card = Empty /\ rowName = Empty /\ doubted = {}
    /\ listing = "idle" /\ list = Empty

-----------------------------------------------------------------------------
(* list_devices *)

\* enumerate_devices_at: a read may fail for each phone.  An error of usbmuxd
\* is no USB device.
Enumerate ==
    /\ listing \in {"idle", "shown"}
    /\ \E found \in {plugged, {}} : \E named \in SUBSET found :
          list' = [p \in found |->
                       [wifi |-> FALSE, name |-> IF p \in named THEN p ELSE NoName]]
    /\ listing' = "merge"
    /\ UNCHANGED <<plugged, card, rowName, doubted>>

\* USB wins: a card is added for a phone that has no row yet.
Merge ==
    /\ listing = "merge"
    /\ list' = [p \in DOMAIN list \cup DOMAIN card |->
                  IF p \in DOMAIN list THEN list[p]
                  ELSE [wifi |-> TRUE, name |-> card[p]]]
    /\ listing' = "overlay"
    /\ UNCHANGED <<plugged, card, rowName, doubted>>

\* Mutant: only a Wi-Fi row that came without a name is looked up.
OverlayBlanks ==
    /\ listing = "overlay"
    /\ list' = [p \in DOMAIN list |->
                  IF list[p].wifi /\ p \in DOMAIN rowName /\ list[p].name = NoName
                  THEN [list[p] EXCEPT !.name = rowName[p]] ELSE list[p]]
    /\ listing' = "shown"
    /\ UNCHANGED <<plugged, card, rowName, doubted>>

\* The command: a Wi-Fi row of a phone on record gets the name on record.
Overlay ==
    /\ listing = "overlay"
    /\ list' = [p \in DOMAIN list |->
                  IF list[p].wifi /\ p \in DOMAIN rowName
                  THEN [list[p] EXCEPT !.name = rowName[p]] ELSE list[p]]
    /\ listing' = "shown"
    /\ UNCHANGED <<plugged, card, rowName, doubted>>

-----------------------------------------------------------------------------

\* resolve_wifi_devices replaces the cache: netmuxd answers for some phones, and
\* may mix up their names.
ResolveWifi ==
    /\ \E P \in SUBSET Phone : card' \in [P -> Name]
    /\ UNCHANGED <<plugged, rowName, doubted, listing, list>>

\* device_row_for takes the name of the core's list, before any overlay: the
\* phone's own over USB, a card's where USB has none, or no name at all; and
\* record_install writes it over what was on record.
RecordRow(p) ==
    /\ \E fromCard \in BOOLEAN, name \in Name :
          /\ IF fromCard THEN p \in DOMAIN card /\ name = card[p]
             ELSE name \in {NoName} \cup ({p} \cap plugged)
          /\ rowName' = [q \in DOMAIN rowName \cup {p} |->
                           IF q = p THEN name ELSE rowName[q]]
          /\ doubted' = IF fromCard THEN doubted \cup {p} ELSE doubted \ {p}
    /\ UNCHANGED <<plugged, card, listing, list>>

\* A cable is plugged or pulled.
Replug ==
    /\ \E p \in Phone : plugged' = IF p \in plugged THEN plugged \ {p} ELSE plugged \cup {p}
    /\ UNCHANGED <<card, rowName, doubted, listing, list>>

ListNext ==
    \/ Enumerate \/ Merge \/ Overlay
    \/ ResolveWifi
    \/ \E p \in Phone : RecordRow(p)
    \/ Replug

ListSpec == ListInit /\ [][ListNext]_listVars

-----------------------------------------------------------------------------
(* Properties *)

\* A phone the computer knows is never listed under the name of another one:
\* not while it is plugged in, whatever the session's cards say of it, and not
\* on Wi-Fi, unless its row was itself written from a card.
KnownByItsName ==
    [][listing # "shown" /\ listing' = "shown" =>
          \A p \in DOMAIN list' :
             \/ list'[p].name \in {p, NoName}
             \/ list'[p].wifi /\ (p \in doubted \/ p \notin DOMAIN rowName)]_listVars

=============================================================================

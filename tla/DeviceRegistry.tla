---------------------------- MODULE DeviceRegistry ----------------------------
(***************************************************************************)
(* The data of crates/wiimote-daemon/src/state.rs: what the daemon tracks  *)
(* for one device, and the registry that maps canonical ids to it.  The id *)
(* of a device is its Bluetooth MAC, or its HID path when hidapi shows no  *)
(* serial number.                                                          *)
(*                                                                         *)
(* Deadlines are Options here: whether one is armed is state, whether it   *)
(* has passed is decided where the code compares it with Instant::now().   *)
(* The session's side of the Wiimote's own protocol (ext_phase,            *)
(* rumble_off_at, last_keepalive, ...), its decoded inputs and the error   *)
(* text of its row in the UI are left out.                                 *)
(***************************************************************************)
EXTENDS Identifiers

CONSTANTS
  Profiles,        \* mapping profiles
  DefaultProfile,  \* MappingProfile::default()
  Extensions,      \* what may be plugged into a Wiimote (ExtensionType)
  NumSlots         \* XInput's cap on controllers (4 in the code)

ASSUME RegistryConstants ==
  /\ DefaultProfile \in Profiles
  /\ NumSlots \in Nat \ {0}
  /\ None \notin Profiles \cup Extensions

Slots == 0..(NumSlots - 1)

Runtime ==
  [path            : Paths,
   connected       : BOOLEAN,
   user_disabled   : BOOLEAN,
   extension       : Extensions \cup {None},
   mapping_profile : Profiles,
   pending         : BOOLEAN,
   next_retry      : BOOLEAN,
   slot            : Slots \cup {None},
   output          : Profiles \cup {None},
   output_retry_at : BOOLEAN]

NewRuntime(p, ext, profile) ==
  [path            |-> p,
   connected       |-> FALSE,
   user_disabled   |-> FALSE,
   extension       |-> ext,
   mapping_profile |-> profile,
   pending         |-> FALSE,
   next_retry      |-> FALSE,
   slot            |-> None,
   output          |-> None,
   output_retry_at |-> FALSE]

(* Mutants: a field that reset_session forgets.                            *)
ResetKeepsSlot(r) ==
  [r EXCEPT !.connected = FALSE, !.pending = FALSE, !.output = None,
            !.output_retry_at = FALSE]
ResetKeepsPad(r) ==
  [r EXCEPT !.connected = FALSE, !.pending = FALSE, !.slot = None,
            !.output_retry_at = FALSE]

(* reset_session: identity, profile, the last extension seen and the       *)
(* sticky user flag survive.                                               *)
ResetSession(r) ==
  [NewRuntime(r.path, r.extension, r.mapping_profile) EXCEPT
     !.user_disabled = r.user_disabled,
     !.next_retry = r.next_retry]

-----------------------------------------------------------------------------
(* The registry is a function whose domain is the set of known ids.        *)

IsRegistry(reg) ==
  /\ DOMAIN reg \subseteq Ids
  /\ reg \in [DOMAIN reg -> Runtime]

Removed(reg, id) == [k \in DOMAIN reg \ {id} |-> reg[k]]

AnyConnected(reg) == \E k \in DOMAIN reg : reg[k].connected

(* Mutants: one slot too many; a device that is being opened holds none.   *)
FreeSlotsOffByOne(reg) == {s \in 0..NumSlots : \A k \in DOMAIN reg : reg[k].slot # s}
FreeSlotsUnlessPending(reg) ==
  {s \in Slots : \A k \in DOMAIN reg : reg[k].pending \/ reg[k].slot # s}

FreeSlots(reg) == {s \in Slots : \A k \in DOMAIN reg : reg[k].slot # s}
LowestFreeSlot(reg) ==
  CHOOSE s \in FreeSlots(reg) : \A t \in FreeSlots(reg) : s <= t

(* id_for_path takes the first match in a HashMap's iteration order: any   *)
(* of these.                                                               *)
IdsForPath(reg, p) == {k \in DOMAIN reg : reg[k].path = p}

-----------------------------------------------------------------------------
(* What the UI is shown of a device, and what devices.json keeps of it.    *)
(* (A file of a version that wrote no path, for which into_snapshot falls  *)
(* back to the id, is left out.)                                           *)

ShownView(reg) ==
  [k \in DOMAIN reg |->
     [connected       |-> reg[k].connected,
      user_disabled   |-> reg[k].user_disabled,
      extension       |-> reg[k].extension,
      mapping_profile |-> reg[k].mapping_profile]]

PersistedDevice ==
  [path : Paths, last_extension : Extensions \cup {None}, mapping_profile : Profiles]

Files == UNION {[S -> PersistedDevice] : S \in SUBSET Ids}

PersistedView(reg) ==
  [k \in DOMAIN reg |->
     [path            |-> reg[k].path,
      last_extension  |-> reg[k].extension,
      mapping_profile |-> reg[k].mapping_profile]]

(* persist::into_snapshot for every entry of the file.                     *)
Hydrated(file) ==
  [k \in DOMAIN file |->
     NewRuntime(file[k].path, file[k].last_extension, file[k].mapping_profile)]

=============================================================================

------------------------------ MODULE MCSound ------------------------------
(* Instances of Sound for TLC. *)
EXTENDS Sound, TLC

(* The clips of StaticModel.h that sentences of the firmware use. *)
Packaged == {Text(w) : w \in {"bluetooth", "engine", "failed", "and"}}
            \cup {Number(n) : n \in {5, 8, 11, 15, 18, 50}}

(* "bluetooth turned on successfully" ends at its second word. *)
Announcement == {<<Text("bluetooth"), Text("unknown")>>}

(* And two clips: 58 is fifty and eight. *)
Said2 == Announcement \cup {<<Number(58)>>}

(* With the clips that were packaged, 51 is said "fifty". *)
PackagedNumberOrNothing == NumberOrNothing(Packaged)
============================================================================

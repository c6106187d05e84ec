--------------------------- MODULE UpdatePromise ---------------------------
(***************************************************************************)
(* What an update of a unit's firmware promises its user, whatever happens *)
(* to the cable, the power and the image (docs/firmware-update.md):        *)
(*                                                                         *)
(*  - the unit changes what it runs only to an image that was sent whole,  *)
(*    checked and not replaced since, or back to the one it ran before;    *)
(*  - the configuration the unit held when the window was opened is on the *)
(*    unit or in a backup file, unless the user did without the backup.    *)
(*                                                                         *)
(* FirmwareUpdate implements this specification.                           *)
(***************************************************************************)
VARIABLES
    runs,      \* the firmware the unit starts: "old" or "new"
    offered,   \* a whole, checked image waits for the unit's next start
    places,    \* where the configuration is: on the unit, in a backup file
    waived     \* the user did without a backup, or it was nothing a backup keeps

vars == <<runs, offered, places, waived>>

Place == {"unit", "file"}

Init ==
    /\ runs = "old" /\ offered = FALSE
    /\ places \subseteq {"unit"}
    /\ waived \in BOOLEAN /\ (places = {} => waived)

\* An image was sent whole and checked, or the one that waited is given up.
Offer == offered' \in BOOLEAN /\ UNCHANGED <<runs, places, waived>>

\* The unit gives up its copy of the configuration only if another is kept, or
\* none was wanted.
MayForget == places' = places \/ (places' = places \ {"unit"} /\ ("file" \in places \/ waived))

\* The unit starts with the waiting image, or goes back from one that failed,
\* and may find a configuration it cannot read.
Start ==
    /\ runs' \in {"old", "new"}
    /\ runs' # runs => offered \/ runs = "new"
    /\ offered' \in {FALSE, offered}
    /\ MayForget /\ UNCHANGED waived

Save == /\ "unit" \in places /\ places' = places \union {"file"}
        /\ UNCHANGED <<runs, offered, waived>>

\* A Send of the backup: it may erase before it stores.
Restore == /\ "file" \in places /\ places' \in {{"file"}, Place}
           /\ UNCHANGED <<runs, offered, waived>>

Waive == waived' = TRUE /\ UNCHANGED <<runs, offered, places>>

Next == Offer \/ Start \/ Save \/ Restore \/ Waive

Spec == Init /\ [][Next]_vars

\* The configuration is never lost to a user who wanted it kept.
Kept == waived \/ places # {}
=============================================================================

---------------------------- MODULE PaisaMirror -----------------------------
(***************************************************************************)
(* What auto sync promises, with no lease, stage or file: Paisa is a       *)
(* mirror of the dashboard.  The source may change at any time and is      *)
(* marked unsettled in the same step; the mirror may load anything while   *)
(* it is unsettled; and it is declared settled only when the mirror shows  *)
(* the source, or when there is nothing to show.                           *)
(***************************************************************************)
CONSTANTS Sources,       \* what the dashboard can hold
          Shown(_),      \* whether a source is to be mirrored at all
          Image(_)       \* the mirror's content for a source

VARIABLES source, mirror, settled

mvars == <<source, mirror, settled>>

MirrorInit == source \in Sources /\ ~ settled

(* A change of the source always unsettles it. *)
Change ==
  /\ source' \in Sources
  /\ settled' = FALSE
  /\ UNCHANGED mirror

(* A reload, a recovery or the acknowledgement of one. *)
Reload ==
  /\ settled' => (Shown(source) => mirror' = Image(source))
  /\ UNCHANGED source

MirrorNext == Change \/ Reload

MirrorSpec == MirrorInit /\ [][MirrorNext]_mvars
=============================================================================

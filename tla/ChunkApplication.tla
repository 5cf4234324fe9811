--------------------------- MODULE ChunkApplication ---------------------------
(***************************************************************************)
(* The frame thread's two records of a chunk's visual: the application     *)
(* record (what generation is expected, prepared and ready) and the entry  *)
(* of the render sink (what generation and transition mask are drawn, and  *)
(* what is staged behind it), with the operations of both as functions of  *)
(* one record.  GPU-resident publication only: every visual is a           *)
(* placeholder that an external renderer prepares and activates.           *)
(***************************************************************************)
EXTENDS Naturals

-----------------------------------------------------------------------------
(* WtGodotRenderSink::Record.  gen = 0: no entry.  active is               *)
(* gpu_resident_replaced; staged marks an entry staged empty, the only     *)
(* staging a placeholder meets; pendGen = 0: no pending placeholder.       *)

NoEntry == [gen |-> 0, mask |-> {}, active |-> FALSE, staged |-> FALSE,
            pendGen |-> 0, pendMask |-> {}]

\* What get_gpu_resident_boundary_mask accepts: the entry covers its chunk.
Shown(s) == s.gen # 0 /\ s.active /\ ~s.staged

\* apply_render for a GPU-resident placeholder.
PlacePlaceholder(s, g, m) ==
    CASE s.gen = 0 -> [NoEntry EXCEPT !.gen = g, !.mask = m]
      [] s.gen = g /\ s.mask = m /\ s.active -> s
      [] s.gen = g /\ ~s.active -> [s EXCEPT !.mask = m, !.pendGen = 0, !.pendMask = {}]
      [] OTHER -> [s EXCEPT !.pendGen = g, !.pendMask = m]

\* can_set_gpu_resident_replacement
CanSet(s, g, m) ==
    /\ s.gen # 0
    /\ \/ s.gen = g /\ s.mask = m /\ ~s.staged
       \/ s.pendGen = g /\ s.pendMask = m

\* set_gpu_resident_replacement: activating a pending placeholder makes it the
\* entry's generation; deactivating one only forgets it.
SetActive(s, g, m, on) ==
    CASE ~CanSet(s, g, m) -> s
      [] s.pendGen = g /\ s.pendMask = m /\ ~on -> [s EXCEPT !.pendGen = 0, !.pendMask = {}]
      [] s.pendGen = g /\ s.pendMask = m /\ on ->
            [NoEntry EXCEPT !.gen = g, !.mask = m, !.active = TRUE]
      [] OTHER -> [s EXCEPT !.active = on]

\* gpu_resident_replacement_matches
Draws(s, g, m) == Shown(s) /\ s.gen = g /\ s.mask = m

\* begin_render_retirement while staging is enabled, as it is whenever the
\* frame retires a chunk: the entry stays, staged empty.
BeginRetirement(s) == IF s.gen = 0 THEN s ELSE [s EXCEPT !.staged = TRUE]

\* publish_staged_record: an entry staged empty is erased.
PublishStaged(s) == IF s.staged THEN NoEntry ELSE s

-----------------------------------------------------------------------------
(* WtChunkApplicationRecord.  gen = 0: no record.  act and prep are        *)
(* external_visual_activation_required and external_visual_prepared; mask  *)
(* is external_visual_transition_mask; edit is the world revision of the   *)
(* edit a chunk is an atomic member of, size that edit's cohort size.      *)

NoRecord == [gen |-> 0, drawn |-> 0, edit |-> 0, size |-> 0, indep |-> FALSE,
             act |-> FALSE, prep |-> FALSE, mask |-> {}, ready |-> FALSE]

\* fully_ready, for a chunk that needs no collision.
FullyReady(r) == r.gen # 0 /\ r.ready /\ r.drawn = r.gen

\* expect_chunk: a newer generation starts over, the current one only gains roles.
Expect(r, g, indep, edit, size) ==
    CASE g < r.gen -> r
      [] g = r.gen -> [r EXCEPT !.indep = @ \/ indep,
                                !.edit = IF @ = 0 THEN edit ELSE @,
                                !.size = IF size # 0 THEN size ELSE @]
      [] OTHER -> [NoRecord EXCEPT !.gen = g, !.indep = indep, !.edit = edit, !.size = size]

\* apply_gpu_resident_placeholder, when the record expects this generation: a
\* visual already activated or prepared under this mask stays so.
AcceptPlaceholder(r, g, m) ==
    LET same == r.drawn = g /\ r.mask = m
        activated == same /\ r.ready /\ ~r.act
    IN  IF r.gen # g THEN r
        ELSE [r EXCEPT !.drawn = g, !.mask = m, !.act = ~activated, !.ready = activated,
                       !.prep = same /\ r.act /\ r.prep]

\* confirm_external_visual_prepared
ConfirmPrepared(r, g, m) ==
    IF r.gen = g /\ r.drawn = g /\ r.mask = m /\ r.act
    THEN [r EXCEPT !.prep = TRUE] ELSE r

\* confirm_external_visual_activation succeeds.
CanConfirm(r, g) == r.gen = g /\ r.drawn = g /\ IF r.act THEN r.prep ELSE r.ready

\* confirm_external_visual_activation
ConfirmActivation(r, g) ==
    IF CanConfirm(r, g) THEN [r EXCEPT !.act = FALSE, !.prep = FALSE, !.ready = TRUE] ELSE r

\* request_external_visual_reactivation
RequestReactivation(r, g, m) ==
    IF r.gen = g /\ r.drawn = g /\ r.mask = m /\ ~r.act
    THEN [r EXCEPT !.act = TRUE, !.prep = FALSE, !.ready = FALSE] ELSE r
=============================================================================

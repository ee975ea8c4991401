--------------------------- MODULE MCResumedChat ---------------------------
(***************************************************************************)
(* Instances of ResumedChat for TLC: transcripts that open with either     *)
(* side or with a tool's turn, some of whose turns map to nothing or stop  *)
(* the reading, and lines shorter and longer than the bound.               *)
(***************************************************************************)
EXTENDS ResumedChat

Turn(role, content) == [role |-> role, content |-> content]

SomeTranscripts ==
  {<<>>,
   <<Turn("other", "some"), Turn("user", "empty"), Turn("tool_call", "some"),
     Turn("assistant_text", "some")>>,
   <<Turn("assistant_text", "some")>>,
   <<Turn("assistant_text", "some"), Turn("user", "long")>>}

Sizes == [text |-> 3, tool |-> 2, board |-> 1, error |-> 1]

Texts == {<<"x", CR, NL, "x">>}

AllBytes == Events \cup {NL, CR, "x"}

=============================================================================

---------------------------- MODULE MCFigureStore -----------------------------
(* Small instances of FigureStore. *)
EXTENDS FigureStore

CONSTANTS m, n1, n2, o, t

Make(item, name, origin, tags, status) ==
  [item |-> item, name |-> name, origin |-> origin, tags |-> tags, status |-> status]

\* A complete body, and a link to be scraped.
MCNew == {Make(Unnamed, n1, o, t, "wished"), Make(m, Unnamed, Unnamed, Unnamed, Unnamed)}

\* A new link with tags; name, origin and tags emptied; a new status.
MCEdits == {Make(m, Unnamed, Unnamed, t, Unnamed), Make(Unnamed, None, None, None, Unnamed),
            Make(Unnamed, Unnamed, o, Unnamed, "wished")}

\* The tags may turn out to be none.
MCReports == {Make(m, Unnamed, o, tags, "owned") : tags \in {t, None}}

\* Nothing that a user sends names an item or changes a name.
NamedNew == {Make(Unnamed, n1, Unnamed, Unnamed, "wished")}

PlainEdits == {Make(Unnamed, Unnamed, o, Unnamed, "wished")}

SyncReports == {Make(m, n2, Unnamed, Unnamed, "owned")}
=============================================================================

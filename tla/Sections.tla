------------------------------ MODULE Sections ------------------------------
(***************************************************************************)
(* How the modules of screens describe a section of a screen: the queries  *)
(* it reads (key, what of the server they read, whether they poll), the    *)
(* acts its controls send (what they write, which keys they invalidate on  *)
(* success, what disables them), and what its panels show of a query that  *)
(* failed.                                                                 *)
(***************************************************************************)
EXTENDS FiniteSets

Query(key, reads) == [key |-> key, reads |-> reads, polls |-> FALSE]
Polled(q) == [q EXCEPT !.polls = TRUE]

\* busy: the acts that disable the control while one of them is pending.
\* home: the dialog that holds the control and its hook, "screen" if none does.
\* after: the keys whose data the control is shown with; past: those whose load
\* must be over, with data or with an error.
Act(name, writes, announces, busy) ==
    [name |-> name, writes |-> writes, announces |-> announces, busy |-> busy, home |-> "screen",
     after |-> {}, past |-> {}, rows |-> FALSE, perRow |-> FALSE, arms |-> FALSE]

\* One control per row: the rows are those of the list it changes.
Rowwise(a) == [a EXCEPT !.rows = TRUE, !.after = a.announces]
PerRow(a) == [Rowwise(a) EXCEPT !.perRow = TRUE]         \* disabled for the row of the last call only
ArmedAct(a) == [a EXCEPT !.arms = TRUE]                     \* a first click arms, a second one sends
Housed(home, a) == [a EXCEPT !.home = home]              \* unmounted with its dialog
After(keys, a) == [a EXCEPT !.after = keys]
Past(keys, a) == [a EXCEPT !.past = keys]
Anytime(a) == After({}, a)                               \* rows of the list shown before stay

\* shows: "retry", "message", "nothing" (not rendered) or "empty" (as if there
\* were no data).
Panel(key, shows) == [key |-> key, shows |-> shows]

Section(queries, acts, panels) == [queries |-> queries, acts |-> acts, panels |-> panels]
Screen(name, sections) ==
    [name    |-> name,
     queries |-> UNION {s.queries : s \in sections},
     acts    |-> UNION {s.acts : s \in sections},
     panels  |-> UNION {s.panels : s \in sections}]
=============================================================================

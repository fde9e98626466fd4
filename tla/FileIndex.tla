----------------------------- MODULE FileIndex -----------------------------
(***************************************************************************)
(* What the index of one resource promises its readers (queries read the   *)
(* chunks table at any time): every file is shown either as one version it *)
(* really had, complete and unmixed, or not at all; and one step changes   *)
(* what is shown of one file only.                                         *)
(***************************************************************************)
CONSTANTS
    File,
    Text     \* contents of a file, an absent one included

VARIABLES
    had,    \* had[f]: the contents f has had so far
    shown   \* shown[f]: the content the index shows for f

Init ==
    /\ had \in [File -> SUBSET Text]
    /\ shown \in [File -> Text]
    /\ \A f \in File : shown[f] \in had[f]

\* The user gives f a content.
Save(f, text) ==
    /\ had' = [had EXCEPT ![f] = @ \cup {text}]
    /\ UNCHANGED shown

\* The index takes up a content f has, or had.
Show(f, text) ==
    /\ text \in had[f]
    /\ shown' = [shown EXCEPT ![f] = text]
    /\ UNCHANGED had

Next == \E f \in File, text \in Text : Save(f, text) \/ Show(f, text)

Spec == Init /\ [][Next]_<<had, shown>>
============================================================================

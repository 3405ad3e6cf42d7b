----------------------------- MODULE MCDownload -----------------------------
(***************************************************************************)
(* Small instances of Download: two remote files of two chunks that share  *)
(* their first chunk, and a .part file that is absent, a prefix, the whole *)
(* file, or longer than the file.                                          *)
(***************************************************************************)
EXTENDS Download

CONSTANTS d1, d2       \* transfers

TwoTransfers == {d1, d2}
TwoSources   == [t \in TwoTransfers |-> IF t = d1 THEN <<"a", "b">> ELSE <<"a", "c">>]

\* One transfer with two cancels and a failing file operation, ...
Alone == [asked |-> {d1}, cancels |-> 2, diskErrors |-> 1]

\* ... or two to the same path with neither.
Both == [asked |-> TwoTransfers, cancels |-> 0, diskErrors |-> 0]

AloneOrBoth == {Alone, Both}
OnlyBoth    == {Both}

NoPart   == {None}
AnyPart  == {None, <<"a">>, <<"z">>, <<"a", "b">>, <<"a", "b", "z">>}
=============================================================================

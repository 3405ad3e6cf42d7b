------------------------------ MODULE MCUpload ------------------------------
(***************************************************************************)
(* Small instances of Upload: two files of two chunks for the same path    *)
(* that share their first chunk, and a .part file that is absent, a prefix,*)
(* the whole file, or longer than the file.                                *)
(***************************************************************************)
EXTENDS Upload

CONSTANTS u1, u2       \* transfers

TwoTransfers == {u1, u2}
TwoSources   == [t \in TwoTransfers |-> IF t = u1 THEN <<"a", "b">> ELSE <<"a", "c">>]

\* One transfer with two cancels and a failing file operation, ...
Alone == [asked |-> {u1}, cancels |-> 2, diskErrors |-> 1]

\* ... or two to the same path with neither.
Both == [asked |-> TwoTransfers, cancels |-> 0, diskErrors |-> 0]

AloneOrBoth == {Alone, Both}
OnlyBoth    == {Both}

NoPart   == {<<>>}
AnyPart  == {<<>>, <<"a">>, <<"z">>, <<"a", "b">>, <<"a", "b", "z">>}
=============================================================================

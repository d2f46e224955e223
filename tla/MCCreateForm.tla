----------------------------- MODULE MCCreateForm -----------------------------
(***************************************************************************)
(* Instances of CreateForm.  "16a" stands for every version that is not an *)
(* integer, as 16-bookworm.                                                *)
(***************************************************************************)
EXTENDS CreateForm

MCVersion == {"14", "16", "16a"}
MCRelease == [v \in MCVersion \cup {Blank} |->
                CASE v = "14" -> 14 [] v \in {"16", "16a"} -> 16 [] OTHER -> 0]
MCMajor == [MCRelease EXCEPT !["16a"] = 0]
MCBuiltIn == <<"14", "16">>

\* Lists that are unset, complete, in the wrong order, blank throughout, and
\* without what a default names; pairs that are malformed or come twice.
VersionLists == {<<>>, <<"16", Blank, "14">>, <<Blank>>, <<"14">>, <<"16a", "16">>}
ImageLists == {<<<<"14">>>>,
               <<<<"14", <<"a:", "14">>>>, <<"14">>, <<"14", <<"b:", "14">>>>>>,
               <<<<Blank, <<"a:", "16">>>>>>}

MCEnvironment ==
    [versions : VersionLists, images : {<<>>}, prefix : {"postgres:"},
     source : {Blank, "16"}, target : {Blank, "14"}]
    \cup [versions : {<<"16">>}, images : ImageLists, prefix : {"postgres:"},
          source : {Blank}, target : {Blank, "16"}]
=============================================================================

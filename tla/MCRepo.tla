------------------------------- MODULE MCRepo -------------------------------
(***************************************************************************)
(* Configurations for the TLC run of Repo.                                 *)
(***************************************************************************)
EXTENDS RepoProperties

CONSTANTS a, b

(* Two images and one template; the other template is never listed.        *)
AllConfigs ==
    { [image |-> (a :> i) @@ (b :> j), template |-> (a :> t) @@ (b :> Unlisted)] :
        i \in {Unlisted, "file", "web"}, j \in {NoLocation, "file"}, t \in {Unlisted, "file"} }

=============================================================================

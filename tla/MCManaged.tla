----------------------------- MODULE MCManaged -----------------------------
(* Managed with one CDN, the plain options and those with the ssh rewrite and
   with pushes through the CDN, and users with and without rewrites of their
   own. *)
EXTENDS Managed, TLC

Plain    == [cdn |-> "a", push |-> FALSE, ssh |-> FALSE]
ViaB     == [cdn |-> "a", push |-> TRUE, ssh |-> TRUE]
SomeOpts == {Plain, ViaB}

\* No rewrites; a rewrite of github.com by another tool; two values under a
\* name GHydra wants; exactly GHydra's own key.
GitStart(keys) == keys @@ NoKeys
SomeGits == {NoKeys, GitStart(Other :> <<"https", "work">>),
             GitStart(Push("https") :> <<"work", "https">>),
             GitStart(Push("https") :> <<"https">>)}
SomeFiles == {None, [block |-> "none", text |-> "work"], [block |-> "none", text |-> "github"]}
=============================================================================

----------------------------- MODULE MCConnectors -----------------------------
(***************************************************************************)
(* Instances of Connectors for TLC.                                        *)
(***************************************************************************)
EXTENDS Connectors, TLC

CONSTANTS r1, r2, r3, owner, viewer

Requests2 == {r1, r2}
Requests3 == {r1, r2, r3}
Symmetry == Permutations(Reqs)

MCEmails == {owner, viewer}
MCAdmins == [e \in Emails |-> [role |-> IF e = owner THEN "owner" ELSE "viewer",
                               addedBy |-> NoEmail]]

\* A ref that a client put in a body: another resource, a version that exists.
ForeignRef == [name |-> <<"elsewhere">>, version |-> 1]
MCBodyRefs == {NoRef, ForeignRef}

MCParts == {"sclawion", "signing", "oauth", "acme", "x", "slack", "discord", "elsewhere"}

\* A connector as its owner left it: one secret rotated, one put in by hand.
LeftBehind(key) ==
  [rate |-> 60, by |-> owner,
   refs |-> [signing_secret |->
               [name |-> SecretNamer(key, "signing_secret"), version |-> 1],
             oauth_token |-> ForeignRef]]

Stored(keys) == [key \in Keys |-> IF key \in keys THEN LeftBehind(key) ELSE NoDoc]
Versions(keys) ==
  [name \in SecretNames |->
     IF \E key \in keys : name = SecretNamer(key, "signing_secret") THEN 1 ELSE 0]

\* A connector that exists and one that does not, for the races on each.
OneTenant    == {<<"acme">>}
Platforms2   == {<<"slack">>, <<"discord">>}
SlackOnly    == {<<<<"acme">>, <<"slack">>>>}
StoredSlack  == Stored(SlackOnly)
SlackLatest  == Versions(SlackOnly)
AllSecrets   == SecretNames

\* Tenants and platforms whose derived secret names share their parts, one
\* platform being unknown, and one secret that was never created. One of two
\* connectors with the same secrets is there from the start.
TwoTenants   == {<<"acme">>, <<"acme", "x">>}
TwoPlatforms == {<<"slack">>, <<"x", "slack">>}
Coinciding   == {<<<<"acme", "x">>, <<"slack">>>>}
StoredTwin   == Stored(Coinciding)
TwinLatest   == Versions(Coinciding)
SomeSecrets  == SecretNames \ {SecretNamer(<<<<"acme">>, <<"slack">>>>, "oauth_token")}
=============================================================================

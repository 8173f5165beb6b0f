------------------------------ MODULE MCProfiles ------------------------------
(* Two rows, two requests in flight, a connection of a group and one of     *)
(* none; and the migration of two connections and an SSH profile.  The      *)
(* dialogs and the migration share no variable: a behaviour is of one half, *)
(* while the other half is at rest.                                         *)
EXTENDS Profiles, Secrets, TLC

CONSTANTS c1, c2, s1

VARIABLE half

MCGroupOf == [m \in Member |-> IF m = "grouped" THEN 1 ELSE None]
MCTableOf == [e \in Entry |-> IF e = s1 THEN 2 ELSE 1]
Alike == Permutations(Plain) \cup Permutations(MasterKey)

DialogsAtRest == kind = "group" /\ \A id \in Id : rows[id] = Absent
MigrationAtRest ==
  /\ ~column
  /\ \A e, f \in Entry : stored[e] = stored[f] /\ stored[e].at = "none" /\ stored[e].layers = << >>

MCInit ==
  /\ Init /\ SecretsInit
  /\ \/ half = "dialogs" /\ MigrationAtRest
     \/ half = "migration" /\ DialogsAtRest

MCNext ==
  \/ half = "dialogs" /\ Next /\ UNCHANGED <<half, secretsVars>>
  \/ half = "migration" /\ SecretsNext /\ UNCHANGED <<half, vars>>

MCSpec == MCInit /\ [][MCNext]_<<half, vars, secretsVars>>
=============================================================================

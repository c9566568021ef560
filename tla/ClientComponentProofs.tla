----------------------- MODULE ClientComponentProofs -----------------------
(***************************************************************************)
(* Proofs about the life of ClientComponent, for any number of instances,  *)
(* users, configurations and dumps.                                        *)
(***************************************************************************)
EXTENDS ClientComponent, TLAPS

\* None of the properties is inductive alone: what a dump reads is alive because
\* it is registered, and what is registered is alive because of the order in
\* which members are destroyed.
LifeInv ==
  /\ TypeOK
  /\ MembersFollowStage
  /\ OnlyAllowedConfigs
  /\ DumpHoldsEntries
  /\ UsersFindReady

USE DEF Stages, Lifetimes

LEMMA InitLife == Init => LifeInv
<1> SUFFICES ASSUME Init
             PROVE  LifeInv
  OBVIOUS
<1>1. 0 \in 0 .. MaxDumps
  BY ComponentAssumption DEF ComponentAssumption
<1>2. TypeOK
  BY <1>1 DEF Init, TypeOK
<1>3. MembersFollowStage /\ OnlyAllowedConfigs /\ DumpHoldsEntries /\ UsersFindReady
  BY ComponentAssumption
     DEF Init, MembersFollowStage, OnlyAllowedConfigs, DumpHoldsEntries, UsersFindReady,
         ComponentAssumption
<1> QED
  BY <1>2, <1>3 DEF LifeInv

LEMMA NextTypeOK ==
  ASSUME TypeOK, [Next]_vars
  PROVE  TypeOK'
<1>1. ASSUME NEW c \in Components, Reject(c)
      PROVE  TypeOK'
  BY <1>1 DEF TypeOK, Reject, lifeVars, dumpVars
<1>2. ASSUME NEW c \in Components, ReadConfig(c)
      PROVE  TypeOK'
  BY <1>2 DEF TypeOK, ReadConfig, Throw, Enter, dumpVars
<1>3. ASSUME NEW c \in Components, Cancelled(c)
      PROVE  TypeOK'
  BY <1>3 DEF TypeOK, Cancelled, Throw, Enter, dumpVars
<1>4. ASSUME NEW c \in Components, RegisterWriter(c)
      PROVE  TypeOK'
  BY <1>4 DEF TypeOK, RegisterWriter, Enter, dumpVars
<1>5. ASSUME NEW c \in Components, MakeClient(c)
      PROVE  TypeOK'
  BY <1>5 DEF TypeOK, MakeClient, Enter, dumpVars
<1>6. ASSUME NEW c \in Components, MakeFails(c)
      PROVE  TypeOK'
  BY <1>6 DEF TypeOK, MakeFails, Throw, Enter, dumpVars
<1>7. ASSUME NEW c \in Components, DestroyClient(c)
      PROVE  TypeOK'
  BY <1>7 DEF TypeOK, DestroyClient, Enter, dumpVars
<1>8. ASSUME NEW c \in Components, Unregister(c)
      PROVE  TypeOK'
  BY <1>8 DEF TypeOK, Unregister, dumpVars
<1>9. ASSUME NEW c \in Components, DestroyMetrics(c)
      PROVE  TypeOK'
  BY <1>9 DEF TypeOK, DestroyMetrics, Enter, dumpVars
<1>10. ASSUME NEW c \in Components, StartWriter(c)
      PROVE  TypeOK'
  BY <1>10 DEF TypeOK, StartWriter, lifeVars
<1>11. ASSUME NEW u \in Users, GetClient(u)
      PROVE  TypeOK'
  BY <1>11, ComponentAssumption DEF TypeOK, ComponentAssumption, GetClient, lifeVars, dumpVars
<1>12. ASSUME NEW u \in Users, Call(u) \/ Return(u)
      PROVE  TypeOK'
  BY <1>12 DEF TypeOK, Call, Return, lifeVars, dumpVars
<1>13. ASSUME NEW u \in Users, DestroyUser(u)
      PROVE  TypeOK'
  BY <1>13 DEF TypeOK, DestroyUser, lifeVars, dumpVars
<1>14. CASE Shutdown
  BY <1>14 DEF TypeOK, Shutdown, lifeVars, dumpVars
<1>15. CASE StartDump
  BY <1>15, ComponentAssumption DEF TypeOK, ComponentAssumption, StartDump, lifeVars
<1>16. CASE EndWriter
  BY <1>16 DEF TypeOK, EndWriter, lifeVars
<1>17. CASE EndDump
  BY <1>17 DEF TypeOK, EndDump, lifeVars
<1>18. CASE Finished \/ UNCHANGED vars
  BY <1>18 DEF TypeOK, Finished, vars, lifeVars, dumpVars
<1> QED
  BY <1>1, <1>2, <1>3, <1>4, <1>5, <1>6, <1>7, <1>8, <1>9, <1>10, <1>11, <1>12, <1>13, <1>14, <1>15, <1>16, <1>17, <1>18
     DEF Next, Construct, Destroy, Dump

LEMMA NextLife ==
  ASSUME LifeInv, [Next]_vars
  PROVE  LifeInv'
<1>0. TypeOK /\ TypeOK'
  BY NextTypeOK DEF LifeInv
<1>1. ASSUME NEW c \in Components, Reject(c)
      PROVE  LifeInv'
  BY <1>0, <1>1 DEF Reject, lifeVars, dumpVars, LifeInv, TypeOK,
     MembersFollowStage, OnlyAllowedConfigs, DumpHoldsEntries, UsersFindReady
<1>2. ASSUME NEW c \in Components, ReadConfig(c)
      PROVE  LifeInv'
  <2>1. SchemaAllows(config[c]) /\ config' = config
    BY <1>2 DEF ReadConfig
  <2>2. /\ stage[c] = "new" /\ metrics' = [metrics EXCEPT ![c] = "alive"]
        /\ \/ stage' = [stage EXCEPT ![c] = "configured"]
           \/ stage' = [stage EXCEPT ![c] = "unwinding"]
        /\ UNCHANGED <<entry, client, user, dumpVars>>
    BY <1>2 DEF ReadConfig, Throw, Enter
  <2>3. OnlyAllowedConfigs'
    BY <1>0, <2>1, <2>2 DEF LifeInv, OnlyAllowedConfigs, TypeOK
  <2>4. (MembersFollowStage /\ DumpHoldsEntries /\ UsersFindReady)'
    BY <1>0, <2>2, ComponentAssumption
       DEF LifeInv, TypeOK, MembersFollowStage, DumpHoldsEntries, UsersFindReady, dumpVars,
           ComponentAssumption
  <2> QED
    BY <1>0, <2>3, <2>4 DEF LifeInv
<1>3. ASSUME NEW c \in Components, Cancelled(c)
      PROVE  LifeInv'
  BY <1>0, <1>3 DEF Cancelled, Throw, Enter, dumpVars, LifeInv, TypeOK,
     MembersFollowStage, OnlyAllowedConfigs, DumpHoldsEntries, UsersFindReady
<1>4. ASSUME NEW c \in Components, RegisterWriter(c)
      PROVE  LifeInv'
  BY <1>0, <1>4 DEF RegisterWriter, Enter, dumpVars, LifeInv, TypeOK,
     MembersFollowStage, OnlyAllowedConfigs, DumpHoldsEntries, UsersFindReady
<1>5. ASSUME NEW c \in Components, MakeClient(c)
      PROVE  LifeInv'
  <2>0. SchemaAllows(config[c])
    BY <1>5 DEF LifeInv, OnlyAllowedConfigs, MakeClient
  <2>1. config[c].transport = "udp"
    BY <2>0 DEF SchemaAllows
  <2> QED
    BY <1>0, <1>5, <2>1 DEF MakeClient, Enter, dumpVars, LifeInv, TypeOK,
       MembersFollowStage, OnlyAllowedConfigs, DumpHoldsEntries, UsersFindReady
<1>6. ASSUME NEW c \in Components, MakeFails(c)
      PROVE  LifeInv'
  BY <1>0, <1>6 DEF MakeFails, Throw, Enter, dumpVars, LifeInv, TypeOK,
     MembersFollowStage, OnlyAllowedConfigs, DumpHoldsEntries, UsersFindReady
<1>7. ASSUME NEW c \in Components, DestroyClient(c)
      PROVE  LifeInv'
  BY <1>0, <1>7 DEF DestroyClient, Enter, dumpVars, LifeInv, TypeOK,
     MembersFollowStage, OnlyAllowedConfigs, DumpHoldsEntries, UsersFindReady
<1>8. ASSUME NEW c \in Components, Unregister(c)
      PROVE  LifeInv'
  BY <1>0, <1>8 DEF Unregister, dumpVars, LifeInv, TypeOK,
     MembersFollowStage, OnlyAllowedConfigs, DumpHoldsEntries, UsersFindReady
<1>9. ASSUME NEW c \in Components, DestroyMetrics(c)
      PROVE  LifeInv'
  BY <1>0, <1>9 DEF DestroyMetrics, Enter, dumpVars, LifeInv, TypeOK,
     MembersFollowStage, OnlyAllowedConfigs, DumpHoldsEntries, UsersFindReady
<1>10. ASSUME NEW c \in Components, StartWriter(c)
      PROVE  LifeInv'
  BY <1>0, <1>10 DEF StartWriter, lifeVars, LifeInv, TypeOK,
     MembersFollowStage, OnlyAllowedConfigs, DumpHoldsEntries, UsersFindReady
<1>11. ASSUME NEW u \in Users, GetClient(u)
      PROVE  LifeInv'
  BY <1>0, <1>11 DEF GetClient, lifeVars, dumpVars, LifeInv, TypeOK,
     MembersFollowStage, OnlyAllowedConfigs, DumpHoldsEntries, UsersFindReady
<1>12. ASSUME NEW u \in Users, Call(u) \/ Return(u)
      PROVE  LifeInv'
  BY <1>0, <1>12 DEF Call, Return, lifeVars, dumpVars, LifeInv, TypeOK,
     MembersFollowStage, OnlyAllowedConfigs, DumpHoldsEntries, UsersFindReady
<1>13. ASSUME NEW u \in Users, DestroyUser(u)
      PROVE  LifeInv'
  BY <1>0, <1>13 DEF DestroyUser, lifeVars, dumpVars, LifeInv, TypeOK,
     MembersFollowStage, OnlyAllowedConfigs, DumpHoldsEntries, UsersFindReady
<1>14. CASE Shutdown
  BY <1>0, <1>14 DEF Shutdown, lifeVars, dumpVars, LifeInv, TypeOK,
     MembersFollowStage, OnlyAllowedConfigs, DumpHoldsEntries, UsersFindReady
<1>15. CASE StartDump
  BY <1>0, <1>15 DEF StartDump, lifeVars, LifeInv, TypeOK,
     MembersFollowStage, OnlyAllowedConfigs, DumpHoldsEntries, UsersFindReady
<1>16. CASE EndWriter
  BY <1>0, <1>16 DEF EndWriter, lifeVars, LifeInv, TypeOK,
     MembersFollowStage, OnlyAllowedConfigs, DumpHoldsEntries, UsersFindReady
<1>17. CASE EndDump
  BY <1>0, <1>17 DEF EndDump, lifeVars, LifeInv, TypeOK,
     MembersFollowStage, OnlyAllowedConfigs, DumpHoldsEntries, UsersFindReady
<1>18. CASE Finished \/ UNCHANGED vars
  BY <1>0, <1>18 DEF Finished, vars, lifeVars, dumpVars, LifeInv, TypeOK,
     MembersFollowStage, OnlyAllowedConfigs, DumpHoldsEntries, UsersFindReady
<1> QED
  BY <1>1, <1>2, <1>3, <1>4, <1>5, <1>6, <1>7, <1>8, <1>9, <1>10, <1>11, <1>12, <1>13, <1>14, <1>15, <1>16, <1>17, <1>18
     DEF Next, Construct, Destroy, Dump

LEMMA LifeInvariant == Spec => []LifeInv
BY InitLife, NextLife, PTL DEF Spec

(***************************************************************************)
(* A dump that runs while instances are constructed, fail and are          *)
(* destroyed reads the metrics of none that does not exist.                *)
(***************************************************************************)
THEOREM DumpsReadTheLiving == Spec => []DumpReadsMetrics
<1>1. LifeInv => DumpReadsMetrics
  BY DEF LifeInv, TypeOK, MembersFollowStage, DumpHoldsEntries, DumpReadsMetrics
<1> QED
  BY <1>1, LifeInvariant, PTL

(***************************************************************************)
(* The reference GetClient returns is never null, because the schema       *)
(* allows the one transport the constructor knows, and never dangling as   *)
(* long as the framework destroys users first.                             *)
(***************************************************************************)
THEOREM ReferencesAreValid == Spec => []ReferenceIsValid
<1>1. LifeInv => ReferenceIsValid
  BY ComponentAssumption
     DEF ComponentAssumption, LifeInv, TypeOK, MembersFollowStage, UsersFindReady,
         ReferenceIsValid
<1> QED
  BY <1>1, LifeInvariant, PTL

(***************************************************************************)
(* Whatever way an instance ends, also by an exception of its constructor, *)
(* its writer, its client and its metrics are gone with it.                *)
(***************************************************************************)
THEOREM NothingIsLeft == Spec => []NothingLeftBehind
<1>1. LifeInv => NothingLeftBehind
  BY DEF LifeInv, TypeOK, MembersFollowStage, NothingLeftBehind
<1> QED
  BY <1>1, LifeInvariant, PTL
=============================================================================

--------------------------- MODULE ManagerProofs ---------------------------
(* Proofs about Manager for every set of configurations: the inductive     *)
(* invariant ManagerInv, and what it implies.                              *)
EXTENDS Manager, TLAPS

USE DEF mvars, held, call, To, Answer, IsRunning, MaybeConfig

\* Nothing runs at first.
LEMMA StartsIdle == ManagerInit => ManagerInv
  BY ManagerAssumption
     DEF ManagerInit, ManagerInv, ManagerTypeOK, ProxyFitsServices, DownWhileLoading,
         LoadedResolves, HeldInStep, ReturnInStep, CauseInStep, File, Steps,
         Results

\* Every step keeps the types.
LEMMA StepTyped == ManagerInv /\ [ManagerNext]_mvars => ManagerTypeOK'
  <1> SUFFICES ASSUME ManagerInv, [ManagerNext]_mvars PROVE ManagerTypeOK'
    OBVIOUS
  <1> USE ManagerAssumption
      DEF ManagerInv, ManagerTypeOK, HeldInStep, LoadedResolves, File, Steps, Results
  <1>1. CASE \E o \in {"start", "apply", "stop", "service"} : Begin(o)
    BY <1>1 DEF Begin, First
  <1>2. CASE Apply BY <1>2 DEF Apply
  <1>3. CASE Start BY <1>3 DEF Start
  <1>4. CASE Load BY <1>4 DEF Load
  <1>5. CASE ResolveRoutes BY <1>5 DEF ResolveRoutes
  <1>6. CASE LaunchRefused BY <1>6 DEF LaunchRefused
  <1>7. CASE Launched BY <1>7 DEF Launched
  <1>8. CASE Replace BY <1>8 DEF Replace
  <1>9. CASE Bound BY <1>9 DEF Bound
  <1>10. CASE BindFails BY <1>10 DEF BindFails
  <1>11. CASE StopProxy BY <1>11 DEF StopProxy
  <1>12. CASE StopServices BY <1>12 DEF StopServices
  <1>13. CASE ServiceOp
    <2>1. CASE proxy # NoConfig /\ gen # 0
      <3>1. gen \in 1 .. MaxStarts BY <2>1
      <3>2. live' \subseteq 1 .. MaxStarts BY <1>13, <2>1, <3>1 DEF ServiceOp
      <3> QED BY <1>13, <2>1, <3>2 DEF ServiceOp
    <2>2. CASE ~(proxy # NoConfig /\ gen # 0) BY <1>13, <2>2 DEF ServiceOp
    <2> QED BY <2>1, <2>2
  <1>14. CASE \E text \in Configs : Save(text) BY <1>14 DEF Save
  <1>15. CASE EditByHand BY <1>15 DEF EditByHand
  <1>16. CASE UNCHANGED mvars BY <1>16
  <1> QED
    BY <1>1, <1>2, <1>3, <1>4, <1>5, <1>6, <1>7, <1>8, <1>9, <1>10, <1>11, <1>12,
       <1>13, <1>14, <1>15, <1>16 DEF ManagerNext, ManagerStep

\* Every step keeps what the invariant says of proxy, services and answers.
LEMMA StepHolds ==
  ManagerInv /\ [ManagerNext]_mvars =>
    (ProxyFitsServices /\ DownWhileLoading /\ LoadedResolves /\ HeldInStep /\ ReturnInStep /\ CauseInStep)'
  <1> SUFFICES ASSUME ManagerInv, [ManagerNext]_mvars
               PROVE  (ProxyFitsServices /\ DownWhileLoading /\ LoadedResolves
                         /\ HeldInStep /\ ReturnInStep /\ CauseInStep)'
    OBVIOUS
  <1> USE ManagerAssumption
      DEF ManagerInv, ManagerTypeOK, ProxyFitsServices, DownWhileLoading, LoadedResolves,
          HeldInStep, ReturnInStep, CauseInStep, File
  <1>1. CASE \E o \in {"start", "apply", "stop", "service"} : Begin(o)
    BY <1>1 DEF Begin, First
  <1>2. CASE Apply BY <1>2 DEF Apply
  <1>3. CASE Start BY <1>3 DEF Start
  <1>4. CASE Load BY <1>4 DEF Load
  <1>5. CASE ResolveRoutes BY <1>5 DEF ResolveRoutes
  <1>6. CASE LaunchRefused BY <1>6 DEF LaunchRefused
  <1>7. CASE Launched BY <1>7 DEF Launched
  <1>8. CASE Replace BY <1>8 DEF Replace
  <1>9. CASE Bound BY <1>9 DEF Bound
  <1>10. CASE BindFails BY <1>10 DEF BindFails
  <1>11. CASE StopProxy BY <1>11 DEF StopProxy
  <1>12. CASE StopServices BY <1>12 DEF StopServices
  <1>13. CASE ServiceOp
    <2>1. CASE proxy # NoConfig /\ gen # 0 BY <1>13, <2>1 DEF ServiceOp
    <2>2. CASE ~(proxy # NoConfig /\ gen # 0) BY <1>13, <2>2 DEF ServiceOp
    <2> QED BY <2>1, <2>2
  <1>14. CASE \E text \in Configs : Save(text) BY <1>14 DEF Save
  <1>15. CASE EditByHand BY <1>15 DEF EditByHand
  <1>16. CASE UNCHANGED mvars BY <1>16
  <1> QED
    BY <1>1, <1>2, <1>3, <1>4, <1>5, <1>6, <1>7, <1>8, <1>9, <1>10, <1>11, <1>12,
       <1>13, <1>14, <1>15, <1>16 DEF ManagerNext, ManagerStep

\* The inductive invariant holds in every reachable state of the manager.
THEOREM ManagerInvariance == ManagerSpec => []ManagerInv
  <1>1. ManagerInv /\ [ManagerNext]_mvars => ManagerInv'
    BY StepTyped, StepHolds DEF ManagerInv
  <1> QED BY StartsIdle, <1>1, PTL DEF ManagerSpec

\* Between operations the manager runs a configuration exactly while the proxy
\* serves it over services made from it, and else leaves nothing alive.
THEOREM RunsWhatItServes == ManagerSpec => []RunningExactlyWhileServing
  <1>1. ManagerInv => RunningExactlyWhileServing
    BY DEF ManagerInv, HeldInStep, ProxyFitsServices, RunningExactlyWhileServing
  <1> QED BY ManagerInvariance, <1>1, PTL

\* The proxy never routes by another configuration than its services', even
\* while an operation replaces them.
THEOREM ProxyAndServicesAgree == ManagerSpec => []ProxyFitsServices
  <1>1. ManagerInv => ProxyFitsServices
    BY DEF ManagerInv
  <1> QED BY ManagerInvariance, <1>1, PTL

\* Two generations of services never live together.
THEOREM OneGenerationLives == ManagerSpec => []OneGeneration
  <1>1. ManagerInv => OneGeneration
    BY DEF ManagerInv, HeldInStep, OneGeneration
  <1> QED BY ManagerInvariance, <1>1, PTL

\* Answers hold of what they leave behind.
THEOREM AnswersAreHonest == ManagerSpec => []AnswerHonest
  <1>1. ManagerInv => AnswerHonest
    BY DEF ManagerInv, HeldInStep, ReturnInStep, AnswerHonest
  <1> QED BY ManagerInvariance, <1>1, PTL

\* Running services are taken down only for a cause: start, stop, a failed
\* bind, or an apply that found another configuration in the file.
THEOREM OnlyForCause == ManagerSpec => DownOnlyForCause
  <1> DEFINE Cause == (gen \in live \ live') =>
                          \/ op \in {"start", "stop"}
                          \/ result \in {"restarted", "bind_error"}
             Differs == result' = "restarted" /\ result # "restarted" =>
                          op = "apply" /\ disk \in Configs \ {running}
  <1>1. ManagerInv /\ [ManagerNext]_mvars => [Cause]_mvars
    <2> SUFFICES ASSUME ManagerInv, ManagerNext, gen \in live \ live'
                 PROVE  \/ op \in {"start", "stop"}
                        \/ result \in {"restarted", "bind_error"}
      OBVIOUS
    <2>1. StopServices \/ Replace
      BY DEF ManagerNext, ManagerStep, Begin, Apply, Start, Load, ResolveRoutes,
             LaunchRefused, Launched, Bound, BindFails, StopProxy, ServiceOp, Save,
             EditByHand
    <2>2. CASE StopServices
      BY <2>2 DEF StopServices, ManagerInv, CauseInStep
    <2>3. CASE Replace
      BY <2>3, ManagerAssumption
         DEF Replace, ManagerInv, ManagerTypeOK, HeldInStep
    <2> QED BY <2>1, <2>2, <2>3
  <1>2. ManagerInv /\ [ManagerNext]_mvars => [Differs]_mvars
    <2> SUFFICES ASSUME ManagerInv, ManagerNext, result' = "restarted", result # "restarted"
                 PROVE  op = "apply" /\ disk \in Configs \ {running}
      OBVIOUS
    <2>1. Apply
      BY DEF ManagerNext, ManagerStep, Begin, First, Start, Load, ResolveRoutes,
             LaunchRefused, Launched, Replace, Bound, BindFails, StopProxy, StopServices,
             ServiceOp, Save, EditByHand
    <2>2. op = "apply"
      BY <2>1 DEF Apply, ManagerInv, CauseInStep
    <2> QED BY <2>1, <2>2 DEF Apply
  <1> QED BY ManagerInvariance, <1>1, <1>2, PTL DEF ManagerSpec, DownOnlyForCause

=============================================================================

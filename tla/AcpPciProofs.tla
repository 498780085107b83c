----------------------------- MODULE AcpPciProofs -----------------------------
(***************************************************************************)
(* The invariants of AcpPci for any number of platform devices.  What is   *)
(* registered is a function of the position in probe or remove, and of the *)
(* loop variable: Ladder says which, label by label.                       *)
(***************************************************************************)
EXTENDS AcpPci, TLAPS

\* The platform devices that are registered at each label.
KidsAt ==
  /\ pc \in {"register", "unregister_devs"} => kids = 0 .. index - 1
  /\ pc = "register" => index < ACP6x_DEVS /\ mode = "pdm"
  /\ pc \in {"irq", "bound"} =>
       \/ mode = "pdm" /\ kids = Devs
       \/ mode = "other" /\ kids = {}
  /\ pc = "irq" => index = (IF mode = "pdm" THEN ACP6x_DEVS ELSE 0)
  /\ pc = "rm_devs" => kids = index .. ACP6x_DEVS - 1 /\ index < ACP6x_DEVS
  /\ pc \notin {"register", "irq", "unregister_devs", "bound", "rm_devs"} => kids = {}
  /\ pc \in {"regions", "alloc", "init", "config"} => index = 0 /\ mode = "other"

\* The part of the type invariant that this one needs.
Positions ==
  /\ pc \in {"unbound", "bound"} \cup ProbeSteps \cup RemoveSteps
  /\ index \in 0 .. ACP6x_DEVS /\ kids \subseteq Devs

Places == Positions /\ KidsAt

\* The PCI resources and the interrupt held at each label.
Ladder ==
  /\ enabled => pc \notin {"unbound", "rm_irq", "rm_sync"}
  /\ regions => pc \notin {"unbound", "regions", "disable_pci", "rm_irq", "rm_sync"}
  /\ irq => pc \in {"bound"} \cup (RemoveSteps \ {"rm_sync"})
  /\ handler # "idle" => pc \in {"bound"} \cup RemoveSteps

\* An open stream is on a complete card, or on one being taken down.
StreamAt ==
  capture => pc \in {"irq", "bound", "unregister_devs", "rm_devs"} /\ kids = Devs

\* The state of the coprocessor at each label.
PowerAt ==
  /\ pc \in {"config", "register", "irq", "unregister_devs", "de_init"} =>
       ctrl /\ enb /\ pm = "active"
  /\ pc \in {"bound", "rm_devs"} /\ pm = "active" => ctrl /\ enb
  /\ pm # "active" => pc \notin ProbeSteps
  /\ pc \in {"unbound", "regions", "alloc", "init", "release_regions",
             "disable_pci", "rm_release", "rm_irq", "rm_sync"} /\ ~timedout =>
       ~ctrl /\ ~enb /\ ~stat

\* Only a stream, hence a complete card, raises the interrupt.
StatAt ==
  /\ stat => pc \in {"irq", "bound", "unregister_devs", "de_init", "rm_devs", "rm_deinit"}
  /\ pc \in {"irq", "bound"} /\ stat => mode = "pdm"

IInv ==
  /\ TypeOK /\ KidsAt /\ Ladder /\ StreamAt /\ PowerAt /\ StatAt
  /\ CaptureArmed /\ HandlerChildLive

------------------------------------------------------------------------------
(* The intervals that the two loops over pdev[] run through.                 *)
LEMMA Intervals ==
  /\ 0 .. 0 - 1 = {}
  /\ \A i \in Nat : (0 .. i - 1) \cup {i} = 0 .. (i + 1) - 1
  /\ \A i \in Nat \ {0} : (0 .. i - 1) \ {i - 1} = 0 .. (i - 1) - 1
  /\ \A i, n \in Nat : (i .. n - 1) \ {i} = i + 1 .. n - 1
  OBVIOUS

(* The initial state satisfies the inductive invariant.                      *)
LEMMA InitIInv == Init => IInv
<1> SUFFICES ASSUME Init PROVE IInv
  OBVIOUS
<1>1. index \in 0 .. ACP6x_DEVS /\ kids \subseteq Devs
  BY DevsAssumption DEF Init
<1>2. TypeOK
  BY <1>1, Zenon DEF Init, TypeOK, Flags
<1>3. /\ KidsAt /\ Ladder /\ StreamAt /\ PowerAt /\ StatAt
      /\ CaptureArmed /\ HandlerChildLive
  BY DEF Init, KidsAt, Ladder, StreamAt, PowerAt, StatAt,
         CaptureArmed, HandlerChildLive, ProbeSteps, RemoveSteps
<1> QED
  BY <1>2, <1>3 DEF IInv

(* Every step keeps what is registered in agreement with the position: this  *)
(* part of the invariant needs no other, and serves the composition as well. *)
LEMMA NextPlaces == Places /\ [Next]_vars => Places'
<1> SUFFICES ASSUME Positions, KidsAt, [Next]_vars
             PROVE  Places'
  BY DEF Places
<1> USE DevsAssumption DEF Goto
<1>1. CASE ProbeEnable
  <2>1. Positions'
    BY <1>1 DEF ProbeEnable, hw, isr, Positions, ProbeSteps, RemoveSteps, Devs
  <2>2. KidsAt'
    BY <1>1, <2>1 DEF ProbeEnable, hw, isr, Positions, KidsAt, Devs
  <2> QED
    BY <2>1, <2>2 DEF Places
<1>2. CASE ProbeRegions
  <2>1. Positions'
    BY <1>2 DEF ProbeRegions, hw, isr, Positions, ProbeSteps, RemoveSteps,
          Devs
  <2>2. KidsAt'
    BY <1>2, <2>1 DEF ProbeRegions, hw, isr, Positions, KidsAt, Devs
  <2> QED
    BY <2>1, <2>2 DEF Places
<1>3. CASE ProbeAlloc
  <2>1. Positions'
    BY <1>3 DEF ProbeAlloc, resource, hw, isr, Positions, ProbeSteps,
          RemoveSteps, Devs
  <2>2. KidsAt'
    BY <1>3, <2>1 DEF ProbeAlloc, resource, hw, isr, Positions, KidsAt, Devs
  <2> QED
    BY <2>1, <2>2 DEF Places
<1>4. CASE ProbeInit
  <2>1. Positions'
    BY <1>4 DEF ProbeInit, acp6x_init, resource, isr, hw, Positions,
          ProbeSteps, RemoveSteps, Devs
  <2>2. KidsAt'
    BY <1>4, <2>1 DEF ProbeInit, acp6x_init, resource, isr, hw, Positions,
          KidsAt, Devs
  <2> QED
    BY <2>1, <2>2 DEF Places
<1>5. CASE ProbeConfig
  <2>1. Positions'
    BY <1>5 DEF ProbeConfig, resource, hw, isr, Positions, ProbeSteps,
          RemoveSteps, Devs
  <2>2. KidsAt'
    <3>1. kids' = {} /\ index' = 0 /\ 0 < ACP6x_DEVS
      BY <1>5 DEF ProbeConfig, KidsAt, resource
    <3>2. 0 .. index' - 1 = {}
      BY <3>1
    <3>3. CASE mode' = "other" /\ pc' = "irq"
      BY <3>1, <3>3 DEF KidsAt
    <3>4. CASE mode' = "pdm" /\ pc' = "register"
      BY <3>1, <3>2, <3>4 DEF KidsAt
    <3>5. CASE pc' = "de_init"
      BY <3>1, <3>5 DEF KidsAt
    <3> QED
      BY <1>5, <3>3, <3>4, <3>5 DEF ProbeConfig, KidsAt
  <2> QED
    BY <2>1, <2>2 DEF Places
<1>6. CASE ProbeRegister
  <2>1. Positions'
    BY <1>6 DEF ProbeRegister, hw, isr, Positions, KidsAt, ProbeSteps,
          RemoveSteps, Devs
  <2>2. KidsAt'
    <3>1. kids = 0 .. index - 1 /\ index < ACP6x_DEVS
          /\ index \in Nat /\ mode' = "pdm"
      BY <1>6 DEF ProbeRegister, KidsAt, Positions
    <3>2. CASE kids' = kids \cup {index} /\ index' = index + 1 /\ pc' = "register"
               /\ index + 1 < ACP6x_DEVS
      <4>1. kids' = 0 .. index' - 1
        BY <3>1, <3>2, Intervals
      <4> QED
        BY <3>1, <3>2, <4>1 DEF KidsAt
    <3>3. CASE kids' = kids \cup {index} /\ index' = index + 1 /\ pc' = "irq"
               /\ ~(index + 1 < ACP6x_DEVS)
      <4>1. index' = ACP6x_DEVS
        BY <3>1, <3>3
      <4>2. kids' = Devs
        BY <3>1, <3>3, <4>1, Intervals DEF Devs
      <4> QED
        BY <1>6, <3>1, <3>3, <4>1, <4>2 DEF KidsAt
    <3>4. CASE kids' = kids /\ index' = index /\ pc' = "unregister_devs"
      BY <3>1, <3>4 DEF KidsAt
    <3> QED
      BY <1>6, <3>2, <3>3, <3>4 DEF ProbeRegister
  <2> QED
    BY <2>1, <2>2 DEF Places
<1>7. CASE ProbeIrq
  <2>1. Positions'
    BY <1>7 DEF ProbeIrq, hw, isr, Positions, ProbeSteps, RemoveSteps, Devs
  <2>2. KidsAt'
    BY <1>7, <2>1, Intervals DEF ProbeIrq, hw, isr, Positions, KidsAt, Devs
  <2> QED
    BY <2>1, <2>2 DEF Places
<1>8. CASE UnregisterDevs
  <2>1. Positions'
    BY <1>8 DEF UnregisterDevs, hw, isr, Positions, KidsAt, ProbeSteps,
          RemoveSteps, Devs
  <2>2. KidsAt'
    <3>1. kids = 0 .. index - 1 /\ index \in Nat
      BY <1>8 DEF UnregisterDevs, KidsAt, Positions
    <3>2. CASE index = 0
      <4>1. kids' = {} /\ pc' = "de_init"
        BY <1>8, <3>1, <3>2, Intervals DEF UnregisterDevs
      <4> QED
        BY <4>1 DEF KidsAt
    <3>3. CASE index # 0
      <4>1. kids' = kids \ {index - 1} /\ index' = index - 1
      /\ pc' = "unregister_devs"
        BY <1>8, <3>3 DEF UnregisterDevs
      <4>2. kids' = 0 .. index' - 1
        BY <3>1, <3>3, <4>1, Intervals
      <4> QED
        BY <4>1, <4>2 DEF KidsAt
    <3> QED
      BY <3>2, <3>3
  <2> QED
    BY <2>1, <2>2 DEF Places
<1>9. CASE DeInit
  <2>1. Positions'
    BY <1>9 DEF DeInit, acp6x_deinit, resource, isr, Positions, ProbeSteps,
          RemoveSteps, Devs
  <2>2. KidsAt'
    BY <1>9, <2>1 DEF DeInit, acp6x_deinit, resource, isr, Positions, KidsAt,
          Devs
  <2> QED
    BY <2>1, <2>2 DEF Places
<1>10. CASE ReleaseRegions
  <2>1. Positions'
    BY <1>10 DEF ReleaseRegions, hw, isr, Positions, ProbeSteps, RemoveSteps,
          Devs
  <2>2. KidsAt'
    BY <1>10, <2>1 DEF ReleaseRegions, hw, isr, Positions, KidsAt, Devs
  <2> QED
    BY <2>1, <2>2 DEF Places
<1>11. CASE DisablePci
  <2>1. Positions'
    BY <1>11 DEF DisablePci, hw, isr, Positions, ProbeSteps, RemoveSteps, Devs
  <2>2. KidsAt'
    BY <1>11, <2>1 DEF DisablePci, hw, isr, Positions, KidsAt, Devs
  <2> QED
    BY <2>1, <2>2 DEF Places
<1>12. CASE RemoveStart
  <2>1. Positions'
    BY <1>12 DEF RemoveStart, resource, hw, isr, Positions, ProbeSteps,
          RemoveSteps, Devs
  <2>2. KidsAt'
    BY <1>12, <2>1 DEF RemoveStart, resource, hw, isr, Positions, KidsAt, Devs
  <2> QED
    BY <2>1, <2>2 DEF Places
<1>13. CASE RemoveDevs
  <2>1. Positions'
    BY <1>13 DEF RemoveDevs, hw, isr, Positions, KidsAt, ProbeSteps,
          RemoveSteps, Devs
  <2>2. KidsAt'
    BY <1>13, <2>1, Intervals DEF RemoveDevs, hw, isr, Positions, KidsAt, Devs
  <2> QED
    BY <2>1, <2>2 DEF Places
<1>14. CASE RemoveDeinit
  <2>1. Positions'
    BY <1>14 DEF RemoveDeinit, acp6x_deinit, resource, isr, Positions,
          ProbeSteps, RemoveSteps, Devs
  <2>2. KidsAt'
    BY <1>14, <2>1 DEF RemoveDeinit, acp6x_deinit, resource, isr, Positions,
          KidsAt, Devs
  <2> QED
    BY <2>1, <2>2 DEF Places
<1>15. CASE RemoveRelease
  <2>1. Positions'
    BY <1>15 DEF RemoveRelease, hw, isr, Positions, ProbeSteps, RemoveSteps,
          Devs
  <2>2. KidsAt'
    BY <1>15, <2>1 DEF RemoveRelease, hw, isr, Positions, KidsAt, Devs
  <2> QED
    BY <2>1, <2>2 DEF Places
<1>16. CASE RemoveFreeIrq
  <2>1. Positions'
    BY <1>16 DEF RemoveFreeIrq, hw, isr, Positions, ProbeSteps, RemoveSteps,
          Devs
  <2>2. KidsAt'
    BY <1>16, <2>1 DEF RemoveFreeIrq, hw, isr, Positions, KidsAt, Devs
  <2> QED
    BY <2>1, <2>2 DEF Places
<1>17. CASE RemoveSyncIrq
  <2>1. Positions'
    BY <1>17 DEF RemoveSyncIrq, resource, hw, isr, Positions, ProbeSteps,
          RemoveSteps, Devs
  <2>2. KidsAt'
    BY <1>17, <2>1 DEF RemoveSyncIrq, resource, hw, isr, Positions, KidsAt,
          Devs
  <2> QED
    BY <2>1, <2>2 DEF Places
<1>18. CASE UNCHANGED <<pc, index, mode, kids>>
  BY <1>18 DEF Places, Positions, KidsAt
<1> QED
  BY <1>1, <1>2, <1>3, <1>4, <1>5, <1>6, <1>7, <1>8, <1>9, <1>10, <1>11,
     <1>12, <1>13, <1>14, <1>15, <1>16, <1>17, <1>18
  DEF Next, Probe, Remove, Handler, RuntimeSuspend, RuntimeResume, OpenStream,
      CloseStream, PeriodDone, IrqReadStat, IrqAck, IrqTestStream,
      IrqPeriodElapsed, resource, vars

(* Every step of probe, remove, runtime PM, the stream and the handler       *)
(* preserves the inductive invariant.                                        *)
LEMMA NextIInv == IInv /\ [Next]_vars => IInv'
<1> SUFFICES ASSUME TypeOK, KidsAt, Ladder, StreamAt, PowerAt, StatAt,
                    CaptureArmed, HandlerChildLive, [Next]_vars
             PROVE  IInv'
  BY DEF IInv
<1> USE DevsAssumption DEF Goto
<1>0. Positions' /\ KidsAt'
  BY NextPlaces DEF Places, Positions, TypeOK
<1>1. CASE ProbeEnable
  <2>1. TypeOK'
    <3>1. Flags'
      BY <1>1, Zenon DEF ProbeEnable, hw, isr, TypeOK, Flags
    <3> QED
      BY <1>1, <1>0, <3>1 DEF ProbeEnable, hw, isr, TypeOK, Positions
  <2> QED
    BY <1>1, <1>0, <2>1 DEF ProbeEnable, hw, isr, IInv, TypeOK, Flags,
          KidsAt, Ladder, StreamAt, PowerAt, StatAt,
          CaptureArmed, HandlerChildLive, ProbeSteps, RemoveSteps, Devs
<1>2. CASE ProbeRegions
  <2>1. TypeOK'
    <3>1. /\ mode' = mode /\ enabled' = enabled /\ irq' = irq
          /\ pm' = pm /\ ctrl' = ctrl /\ enb' = enb
          /\ stat' = stat /\ capture' = capture /\ handler' = handler
          /\ allones' = allones /\ timedout' = timedout
      BY <1>2 DEF ProbeRegions, hw, isr
    <3>2. regions' \in BOOLEAN
      BY <1>2, Zenon DEF ProbeRegions, hw, isr, TypeOK, Flags
    <3>3. Flags'
      BY <3>1, <3>2, Zenon DEF TypeOK, Flags
    <3> QED
      BY <1>0, <3>1, <3>2, <3>3 DEF TypeOK, Positions
  <2> QED
    BY <1>2, <1>0, <2>1 DEF ProbeRegions, hw, isr, IInv, TypeOK, Flags,
          KidsAt, Ladder, StreamAt, PowerAt, StatAt,
          CaptureArmed, HandlerChildLive, ProbeSteps, RemoveSteps, Devs
<1>3. CASE ProbeAlloc
  <2>1. TypeOK'
    <3>1. /\ mode' = mode /\ enabled' = enabled /\ regions' = regions
          /\ irq' = irq /\ pm' = pm /\ ctrl' = ctrl
          /\ enb' = enb /\ stat' = stat /\ capture' = capture
          /\ handler' = handler /\ allones' = allones /\ timedout' = timedout
      BY <1>3 DEF ProbeAlloc, resource, hw, isr
    <3>3. Flags'
      BY <3>1, Zenon DEF TypeOK, Flags
    <3> QED
      BY <1>0, <3>1, <3>3 DEF TypeOK, Positions
  <2> QED
    BY <1>3, <1>0, <2>1 DEF ProbeAlloc, resource, hw, isr, IInv, TypeOK, Flags,
          KidsAt, Ladder, StreamAt, PowerAt, StatAt,
          CaptureArmed, HandlerChildLive, ProbeSteps, RemoveSteps, Devs
<1>4. CASE ProbeInit
  <2>1. TypeOK'
    <3>1. /\ mode' = mode /\ enabled' = enabled /\ regions' = regions
          /\ irq' = irq /\ pm' = pm /\ capture' = capture
          /\ handler' = handler /\ allones' = allones
      BY <1>4 DEF ProbeInit, acp6x_init, resource, hw, isr
    <3>2. /\ ctrl' \in BOOLEAN
          /\ enb' \in BOOLEAN
          /\ stat' \in BOOLEAN
          /\ timedout' \in BOOLEAN
      BY <1>4, Zenon DEF ProbeInit, acp6x_init, resource, hw, isr, TypeOK, Flags
    <3>3. Flags'
      BY <3>1, <3>2, Zenon DEF TypeOK, Flags
    <3> QED
      BY <1>0, <3>1, <3>2, <3>3 DEF TypeOK, Positions
  <2> QED
    BY <1>4, <1>0, <2>1 DEF ProbeInit, acp6x_init, resource, hw, isr, IInv, TypeOK, Flags,
          KidsAt, Ladder, StreamAt, PowerAt, StatAt,
          CaptureArmed, HandlerChildLive, ProbeSteps, RemoveSteps, Devs
<1>5. CASE ProbeConfig
  <2>1. TypeOK'
    <3>1. /\ enabled' = enabled /\ regions' = regions /\ irq' = irq
          /\ pm' = pm /\ ctrl' = ctrl /\ enb' = enb
          /\ stat' = stat /\ capture' = capture /\ handler' = handler
          /\ allones' = allones /\ timedout' = timedout
      BY <1>5 DEF ProbeConfig, resource, hw, isr
    <3>2. mode' \in {"pdm", "other"}
      BY <1>5, Zenon DEF ProbeConfig, resource, hw, isr, TypeOK, Flags
    <3>3. Flags'
      BY <3>1, <3>2, Zenon DEF TypeOK, Flags
    <3> QED
      BY <1>0, <3>1, <3>2, <3>3 DEF TypeOK, Positions
  <2>2. Ladder'
    BY <1>5, <2>1 DEF ProbeConfig, resource, hw, isr, TypeOK, Flags, Ladder,
          StreamAt, KidsAt, Devs, ProbeSteps, RemoveSteps
  <2>3. StreamAt'
    BY <1>5, <2>1 DEF ProbeConfig, resource, hw, isr, TypeOK, Flags, StreamAt,
          KidsAt, Devs
  <2>4. PowerAt' /\ StatAt' /\ CaptureArmed'
    BY <1>5, <2>1 DEF ProbeConfig, resource, hw, isr, TypeOK, Flags, PowerAt,
          StatAt, CaptureArmed,
          StreamAt, KidsAt, Devs, ProbeSteps, RemoveSteps
  <2>5. HandlerChildLive'
    BY <1>5, <2>1 DEF ProbeConfig, resource, hw, isr, TypeOK, Flags,
          HandlerChildLive, Ladder, StatAt,
          KidsAt, PowerAt, Devs, ProbeSteps, RemoveSteps
  <2> QED
    BY <2>1, <1>0, <2>2, <2>3, <2>4, <2>5 DEF IInv
<1>6. CASE ProbeRegister
  <2>1. TypeOK'
    <3>1. /\ mode' = mode /\ enabled' = enabled /\ regions' = regions
          /\ irq' = irq /\ pm' = pm /\ ctrl' = ctrl
          /\ enb' = enb /\ stat' = stat /\ capture' = capture
          /\ handler' = handler /\ allones' = allones /\ timedout' = timedout
      BY <1>6 DEF ProbeRegister, hw, isr
    <3>3. Flags'
      BY <3>1, Zenon DEF TypeOK, Flags
    <3> QED
      BY <1>0, <3>1, <3>3 DEF TypeOK, Positions
  <2>2. Ladder'
    BY <1>6, <2>1 DEF ProbeRegister, hw, isr, TypeOK, Flags, Ladder, StreamAt,
          KidsAt, Devs, ProbeSteps, RemoveSteps
  <2>3. StreamAt'
    BY <1>6, <2>1 DEF ProbeRegister, hw, isr, TypeOK, Flags, StreamAt, KidsAt, Devs
  <2>4. PowerAt' /\ StatAt' /\ CaptureArmed'
    BY <1>6, <2>1 DEF ProbeRegister, hw, isr, TypeOK, Flags, PowerAt, StatAt,
          CaptureArmed,
          StreamAt, KidsAt, Devs, ProbeSteps, RemoveSteps
  <2>5. HandlerChildLive'
    BY <1>6, <2>1 DEF ProbeRegister, hw, isr, TypeOK, Flags, HandlerChildLive,
          Ladder, StatAt,
          KidsAt, PowerAt, Devs, ProbeSteps, RemoveSteps
  <2> QED
    BY <2>1, <1>0, <2>2, <2>3, <2>4, <2>5 DEF IInv
<1>7. CASE ProbeIrq
  <2>1. TypeOK'
    <3>1. /\ mode' = mode /\ enabled' = enabled /\ regions' = regions
          /\ pm' = pm /\ ctrl' = ctrl /\ enb' = enb
          /\ stat' = stat /\ capture' = capture /\ handler' = handler
          /\ allones' = allones /\ timedout' = timedout
      BY <1>7 DEF ProbeIrq, hw, isr
    <3>2. irq' \in BOOLEAN
      BY <1>7, Zenon DEF ProbeIrq, hw, isr, TypeOK, Flags
    <3>3. Flags'
      BY <3>1, <3>2, Zenon DEF TypeOK, Flags
    <3> QED
      BY <1>0, <3>1, <3>2, <3>3 DEF TypeOK, Positions
  <2>2. Ladder'
    BY <1>7, <2>1 DEF ProbeIrq, hw, isr, TypeOK, Flags, Ladder, StreamAt, KidsAt,
          Devs, ProbeSteps, RemoveSteps
  <2>3. StreamAt'
    BY <1>7, <2>1 DEF ProbeIrq, hw, isr, TypeOK, Flags, StreamAt, KidsAt, Devs
  <2>4. PowerAt' /\ StatAt' /\ CaptureArmed'
    BY <1>7, <2>1 DEF ProbeIrq, hw, isr, TypeOK, Flags, PowerAt, StatAt,
          CaptureArmed,
          StreamAt, KidsAt, Devs, ProbeSteps, RemoveSteps
  <2>5. HandlerChildLive'
    BY <1>7, <2>1 DEF ProbeIrq, hw, isr, TypeOK, Flags, HandlerChildLive, Ladder,
          StatAt,
          KidsAt, PowerAt, Devs, ProbeSteps, RemoveSteps
  <2> QED
    BY <2>1, <1>0, <2>2, <2>3, <2>4, <2>5 DEF IInv
<1>8. CASE UnregisterDevs
  <2>1. TypeOK'
    <3>1. /\ mode' = mode /\ enabled' = enabled /\ regions' = regions
          /\ irq' = irq /\ pm' = pm /\ ctrl' = ctrl
          /\ enb' = enb /\ stat' = stat /\ capture' = capture
          /\ handler' = handler /\ allones' = allones /\ timedout' = timedout
      BY <1>8 DEF UnregisterDevs, hw, isr
    <3>3. Flags'
      BY <3>1, Zenon DEF TypeOK, Flags
    <3> QED
      BY <1>0, <3>1, <3>3 DEF TypeOK, Positions
  <2>2. Ladder'
    BY <1>8, <2>1 DEF UnregisterDevs, hw, isr, TypeOK, Flags, Ladder, StreamAt,
          KidsAt, Devs, ProbeSteps, RemoveSteps
  <2>3. StreamAt'
    BY <1>8, <2>1 DEF UnregisterDevs, hw, isr, TypeOK, Flags, StreamAt, KidsAt, Devs
  <2>4. PowerAt' /\ StatAt' /\ CaptureArmed'
    BY <1>8, <2>1 DEF UnregisterDevs, hw, isr, TypeOK, Flags, PowerAt, StatAt,
          CaptureArmed,
          StreamAt, KidsAt, Devs, ProbeSteps, RemoveSteps
  <2>5. HandlerChildLive'
    BY <1>8, <2>1 DEF UnregisterDevs, hw, isr, TypeOK, Flags, HandlerChildLive,
          Ladder, StatAt,
          KidsAt, PowerAt, Devs, ProbeSteps, RemoveSteps
  <2> QED
    BY <2>1, <1>0, <2>2, <2>3, <2>4, <2>5 DEF IInv
<1>9. CASE DeInit
  <2>1. TypeOK'
    <3>1. Flags'
      BY <1>9, Zenon DEF DeInit, acp6x_deinit, resource, isr, TypeOK, Flags
    <3> QED
      BY <1>9, <1>0, <3>1 DEF DeInit, acp6x_deinit, resource, isr, TypeOK, Positions
  <2> QED
    BY <1>9, <1>0, <2>1 DEF DeInit, acp6x_deinit, resource, isr, IInv, TypeOK, Flags,
          KidsAt, Ladder, StreamAt, PowerAt, StatAt,
          CaptureArmed, HandlerChildLive, ProbeSteps, RemoveSteps, Devs
<1>10. CASE ReleaseRegions
  <2>1. TypeOK'
    <3>1. Flags'
      BY <1>10, Zenon DEF ReleaseRegions, hw, isr, TypeOK, Flags
    <3> QED
      BY <1>10, <1>0, <3>1 DEF ReleaseRegions, hw, isr, TypeOK, Positions
  <2> QED
    BY <1>10, <1>0, <2>1 DEF ReleaseRegions, hw, isr, IInv, TypeOK, Flags,
          KidsAt, Ladder, StreamAt, PowerAt, StatAt,
          CaptureArmed, HandlerChildLive, ProbeSteps, RemoveSteps, Devs
<1>11. CASE DisablePci
  <2>1. TypeOK'
    <3>1. Flags'
      BY <1>11, Zenon DEF DisablePci, hw, isr, TypeOK, Flags
    <3> QED
      BY <1>11, <1>0, <3>1 DEF DisablePci, hw, isr, TypeOK, Positions
  <2> QED
    BY <1>11, <1>0, <2>1 DEF DisablePci, hw, isr, IInv, TypeOK, Flags,
          KidsAt, Ladder, StreamAt, PowerAt, StatAt,
          CaptureArmed, HandlerChildLive, ProbeSteps, RemoveSteps, Devs
<1>12. CASE RemoveStart
  <2>1. TypeOK'
    <3>1. Flags'
      BY <1>12, Zenon DEF RemoveStart, resource, hw, isr, TypeOK, Flags
    <3> QED
      BY <1>12, <1>0, <3>1 DEF RemoveStart, resource, hw, isr, TypeOK, Positions
  <2> QED
    BY <1>12, <1>0, <2>1 DEF RemoveStart, resource, hw, isr, IInv, TypeOK, Flags,
          KidsAt, Ladder, StreamAt, PowerAt, StatAt,
          CaptureArmed, HandlerChildLive, ProbeSteps, RemoveSteps, Devs
<1>13. CASE RemoveDevs
  <2>1. TypeOK'
    <3>1. Flags'
      BY <1>13, Zenon DEF RemoveDevs, hw, isr, TypeOK, Flags
    <3> QED
      BY <1>13, <1>0, <3>1 DEF RemoveDevs, hw, isr, TypeOK, Positions
  <2>2. Ladder'
    BY <1>13, <2>1 DEF RemoveDevs, hw, isr, TypeOK, Flags, Ladder, StreamAt,
          KidsAt, Devs, ProbeSteps, RemoveSteps
  <2>3. StreamAt'
    BY <1>13, <2>1 DEF RemoveDevs, hw, isr, TypeOK, Flags, StreamAt, KidsAt, Devs
  <2>4. PowerAt' /\ StatAt' /\ CaptureArmed'
    BY <1>13, <2>1 DEF RemoveDevs, hw, isr, TypeOK, Flags, PowerAt, StatAt,
          CaptureArmed,
          StreamAt, KidsAt, Devs, ProbeSteps, RemoveSteps
  <2>5. HandlerChildLive'
    BY <1>13, <2>1 DEF RemoveDevs, hw, isr, TypeOK, Flags, HandlerChildLive,
          Ladder, StatAt,
          KidsAt, PowerAt, Devs, ProbeSteps, RemoveSteps
  <2> QED
    BY <2>1, <1>0, <2>2, <2>3, <2>4, <2>5 DEF IInv
<1>14. CASE RemoveDeinit
  <2>1. TypeOK'
    <3>1. Flags'
      BY <1>14, Zenon DEF RemoveDeinit, acp6x_deinit, resource, isr, TypeOK, Flags
    <3> QED
      BY <1>14, <1>0, <3>1 DEF RemoveDeinit, acp6x_deinit, resource, isr, TypeOK, Positions
  <2> QED
    BY <1>14, <1>0, <2>1 DEF RemoveDeinit, acp6x_deinit, resource, isr, IInv, TypeOK,
          Flags,
          KidsAt, Ladder, StreamAt, PowerAt, StatAt,
          CaptureArmed, HandlerChildLive, ProbeSteps, RemoveSteps, Devs
<1>15. CASE RemoveRelease
  <2>1. TypeOK'
    <3>1. Flags'
      BY <1>15, Zenon DEF RemoveRelease, hw, isr, TypeOK, Flags
    <3> QED
      BY <1>15, <1>0, <3>1 DEF RemoveRelease, hw, isr, TypeOK, Positions
  <2> QED
    BY <1>15, <1>0, <2>1 DEF RemoveRelease, hw, isr, IInv, TypeOK, Flags,
          KidsAt, Ladder, StreamAt, PowerAt, StatAt,
          CaptureArmed, HandlerChildLive, ProbeSteps, RemoveSteps, Devs
<1>16. CASE RemoveFreeIrq
  <2>1. TypeOK'
    <3>1. Flags'
      BY <1>16, Zenon DEF RemoveFreeIrq, hw, isr, TypeOK, Flags
    <3> QED
      BY <1>16, <1>0, <3>1 DEF RemoveFreeIrq, hw, isr, TypeOK, Positions
  <2> QED
    BY <1>16, <1>0, <2>1 DEF RemoveFreeIrq, hw, isr, IInv, TypeOK, Flags,
          KidsAt, Ladder, StreamAt, PowerAt, StatAt,
          CaptureArmed, HandlerChildLive, ProbeSteps, RemoveSteps, Devs
<1>17. CASE RemoveSyncIrq
  <2>1. TypeOK'
    <3>1. Flags'
      BY <1>17, Zenon DEF RemoveSyncIrq, resource, hw, isr, TypeOK, Flags
    <3> QED
      BY <1>17, <1>0, <3>1 DEF RemoveSyncIrq, resource, hw, isr, TypeOK, Positions
  <2> QED
    BY <1>17, <1>0, <2>1 DEF RemoveSyncIrq, resource, hw, isr, IInv, TypeOK, Flags,
          KidsAt, Ladder, StreamAt, PowerAt, StatAt,
          CaptureArmed, HandlerChildLive, ProbeSteps, RemoveSteps, Devs
<1>18. CASE RuntimeSuspend
  <2>1. TypeOK'
    <3>1. Flags'
      BY <1>18, Zenon DEF RuntimeSuspend, acp6x_deinit, resource, isr, TypeOK, Flags
    <3> QED
      BY <1>18, <1>0, <3>1 DEF RuntimeSuspend, acp6x_deinit, resource, isr, TypeOK, Positions
  <2> QED
    BY <1>18, <1>0, <2>1 DEF RuntimeSuspend, acp6x_deinit, resource, isr, IInv, TypeOK,
          Flags,
          KidsAt, Ladder, StreamAt, PowerAt, StatAt,
          CaptureArmed, HandlerChildLive, ProbeSteps, RemoveSteps, Devs
<1>19. CASE RuntimeResume
  <2>1. TypeOK'
    <3>1. /\ mode' = mode /\ enabled' = enabled /\ regions' = regions
          /\ irq' = irq /\ capture' = capture /\ handler' = handler
          /\ allones' = allones
      BY <1>19 DEF RuntimeResume, acp6x_init, resource, hw, isr
    <3>2. /\ ctrl' \in BOOLEAN
          /\ enb' \in BOOLEAN
          /\ stat' \in BOOLEAN
          /\ timedout' \in BOOLEAN
          /\ pm' \in {"active", "suspended", "error"}
      BY <1>19, Zenon DEF RuntimeResume, acp6x_init, resource, hw, isr, TypeOK,
            Flags
    <3>3. Flags'
      BY <3>1, <3>2, Zenon DEF TypeOK, Flags
    <3> QED
      BY <1>0, <3>1, <3>2, <3>3 DEF TypeOK, Positions
  <2> QED
    BY <1>19, <1>0, <2>1 DEF RuntimeResume, acp6x_init, resource, hw, isr, IInv, TypeOK,
          Flags,
          KidsAt, Ladder, StreamAt, PowerAt, StatAt,
          CaptureArmed, HandlerChildLive, ProbeSteps, RemoveSteps, Devs
<1>20. CASE OpenStream
  <2>1. TypeOK'
    <3>1. Flags'
      BY <1>20, Zenon DEF OpenStream, CardUp, resource, hw, isr, TypeOK, Flags
    <3> QED
      BY <1>20, <1>0, <3>1 DEF OpenStream, CardUp, resource, hw, isr, TypeOK, Positions
  <2> QED
    BY <1>20, <1>0, <2>1 DEF OpenStream, CardUp, resource, hw, isr, IInv, TypeOK, Flags,
          KidsAt, Ladder, StreamAt, PowerAt, StatAt,
          CaptureArmed, HandlerChildLive, ProbeSteps, RemoveSteps, Devs
<1>21. CASE CloseStream
  <2>1. TypeOK'
    <3>1. Flags'
      BY <1>21, Zenon DEF CloseStream, resource, hw, isr, TypeOK, Flags
    <3> QED
      BY <1>21, <1>0, <3>1 DEF CloseStream, resource, hw, isr, TypeOK, Positions
  <2> QED
    BY <1>21, <1>0, <2>1 DEF CloseStream, resource, hw, isr, IInv, TypeOK, Flags,
          KidsAt, Ladder, StreamAt, PowerAt, StatAt,
          CaptureArmed, HandlerChildLive, ProbeSteps, RemoveSteps, Devs
<1>22. CASE PeriodDone
  <2>1. TypeOK'
    <3>1. Flags'
      BY <1>22, Zenon DEF PeriodDone, resource, isr, TypeOK, Flags
    <3> QED
      BY <1>22, <1>0, <3>1 DEF PeriodDone, resource, isr, TypeOK, Positions
  <2> QED
    BY <1>22, <1>0, <2>1 DEF PeriodDone, resource, isr, IInv, TypeOK, Flags,
          KidsAt, Ladder, StreamAt, PowerAt, StatAt,
          CaptureArmed, HandlerChildLive, ProbeSteps, RemoveSteps, Devs
<1>23. CASE IrqReadStat
  <2>1. TypeOK'
    <3>1. Flags'
      BY <1>23, Zenon DEF IrqReadStat, resource, hw, TypeOK, Flags
    <3> QED
      BY <1>23, <1>0, <3>1 DEF IrqReadStat, resource, hw, TypeOK, Positions
  <2>2. Ladder'
    BY <1>23, <2>1 DEF IrqReadStat, resource, hw, TypeOK, Flags, Ladder, StreamAt,
          KidsAt, Devs, ProbeSteps, RemoveSteps
  <2>3. StreamAt'
    BY <1>23, <2>1 DEF IrqReadStat, resource, hw, TypeOK, Flags, StreamAt, KidsAt,
          Devs
  <2>4. PowerAt' /\ StatAt' /\ CaptureArmed'
    BY <1>23, <2>1 DEF IrqReadStat, resource, hw, TypeOK, Flags, PowerAt, StatAt,
          CaptureArmed,
          StreamAt, KidsAt, Devs, ProbeSteps, RemoveSteps
  <2>5. HandlerChildLive'
    <3>1. UNCHANGED <<kids, pc, mode>> /\ pc \in {"bound"} \cup RemoveSteps
      BY <1>23 DEF IrqReadStat, Ladder, resource, RemoveSteps
    <3>2. CASE pc \in RemoveSteps
      BY <3>1, <3>2 DEF HandlerChildLive
    <3>3. CASE pc = "bound" /\ mode = "pdm"
      BY <3>1, <3>3 DEF HandlerChildLive, KidsAt, Devs
    <3>4. CASE pc = "bound" /\ mode = "other"
      <4>1. ~stat
        BY <3>4 DEF StatAt
      <4>2. allones'
        BY <1>23, <4>1 DEF IrqReadStat
      <4> QED
        BY <3>1, <3>4, <4>2 DEF HandlerChildLive
    <3> QED
      BY <3>1, <3>2, <3>3, <3>4 DEF TypeOK
  <2> QED
    BY <2>1, <1>0, <2>2, <2>3, <2>4, <2>5 DEF IInv
<1>24. CASE IrqAck
  <2>1. TypeOK'
    <3>1. Flags'
      BY <1>24, Zenon DEF IrqAck, resource, TypeOK, Flags
    <3> QED
      BY <1>24, <1>0, <3>1 DEF IrqAck, resource, TypeOK, Positions
  <2> QED
    BY <1>24, <1>0, <2>1 DEF IrqAck, resource, IInv, TypeOK, Flags,
          KidsAt, Ladder, StreamAt, PowerAt, StatAt,
          CaptureArmed, HandlerChildLive, ProbeSteps, RemoveSteps, Devs
<1>25. CASE IrqTestStream
  <2>1. TypeOK'
    <3>1. Flags'
      BY <1>25, Zenon DEF IrqTestStream, resource, hw, TypeOK, Flags
    <3> QED
      BY <1>25, <1>0, <3>1 DEF IrqTestStream, resource, hw, TypeOK, Positions
  <2> QED
    BY <1>25, <1>0, <2>1 DEF IrqTestStream, resource, hw, IInv, TypeOK, Flags,
          KidsAt, Ladder, StreamAt, PowerAt, StatAt,
          CaptureArmed, HandlerChildLive, ProbeSteps, RemoveSteps, Devs
<1>26. CASE IrqPeriodElapsed
  <2>1. TypeOK'
    <3>1. Flags'
      BY <1>26, Zenon DEF IrqPeriodElapsed, resource, hw, TypeOK, Flags
    <3> QED
      BY <1>26, <1>0, <3>1 DEF IrqPeriodElapsed, resource, hw, TypeOK, Positions
  <2> QED
    BY <1>26, <1>0, <2>1 DEF IrqPeriodElapsed, resource, hw, IInv, TypeOK, Flags,
          KidsAt, Ladder, StreamAt, PowerAt, StatAt,
          CaptureArmed, HandlerChildLive, ProbeSteps, RemoveSteps, Devs
<1>27. CASE UNCHANGED vars
  <2>1. TypeOK'
    <3>1. /\ mode' = mode /\ enabled' = enabled /\ regions' = regions
          /\ irq' = irq /\ pm' = pm /\ ctrl' = ctrl
          /\ enb' = enb /\ stat' = stat /\ capture' = capture
          /\ handler' = handler /\ allones' = allones /\ timedout' = timedout
      BY <1>27 DEF vars, resource, hw, isr
    <3>3. Flags'
      BY <3>1, Zenon DEF TypeOK, Flags
    <3> QED
      BY <1>0, <3>1, <3>3 DEF TypeOK, Positions
  <2> QED
    BY <1>27, <1>0, <2>1 DEF vars, resource, hw, isr, IInv, TypeOK, Flags,
          KidsAt, Ladder, StreamAt, PowerAt, StatAt,
          CaptureArmed, HandlerChildLive, ProbeSteps, RemoveSteps, Devs
<1> QED
  BY <1>1, <1>2, <1>3, <1>4, <1>5, <1>6, <1>7, <1>8, <1>9, <1>10, <1>11, <1>12,
       <1>13, <1>14, <1>15, <1>16, <1>17, <1>18, <1>19, <1>20, <1>21, <1>22,
       <1>23, <1>24, <1>25, <1>26, <1>27
  DEF Next, Probe, Remove, Handler

------------------------------------------------------------------------------
(* The inductive invariant holds in every reachable state.                   *)
LEMMA Invariance == Spec => []IInv
  BY InitIInv, NextIInv, PTL DEF Spec

(* The types, and with them the bounds of the two loops over pdev[].         *)
THEOREM TypeCorrect == Spec => []TypeOK
<1>1. IInv => TypeOK
  BY DEF IInv
<1> QED
  BY <1>1, Invariance, PTL

(* No exit of probe and no remove leaks a device, a region or an interrupt.  *)
THEOREM NothingLeaks == Spec => []ReleasedWhenUnbound
<1>1. IInv => ReleasedWhenUnbound
  BY DEF IInv, KidsAt, Ladder, StreamAt, RemoveSteps, ReleasedWhenUnbound
<1> QED
  BY <1>1, Invariance, PTL

(* An unbound coprocessor is off, unless a soft reset timed out.             *)
THEOREM UnboundIsOff == Spec => []PoweredOffWhenUnbound
<1>1. IInv => PoweredOffWhenUnbound
  BY DEF IInv, PowerAt, PoweredOffWhenUnbound
<1> QED
  BY <1>1, Invariance, PTL

(* The coprocessor is never shut down under an open stream.                  *)
THEOREM StreamsAreArmed == Spec => []CaptureArmed
<1>1. IInv => CaptureArmed
  BY DEF IInv
<1> QED
  BY <1>1, Invariance, PTL

(* The handler meets a missing pdev[0] in two situations and in no other.    *)
THEOREM HandlerIsSafe == Spec => []HandlerChildLive
<1>1. IInv => HandlerChildLive
  BY DEF IInv
<1> QED
  BY <1>1, Invariance, PTL

==============================================================================

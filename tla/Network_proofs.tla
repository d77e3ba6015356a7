--------------------------- MODULE Network_proofs ---------------------------
(***************************************************************************)
(* Proofs about EventLoop and WiFi on top of it, for any set of tasks      *)
(* inside initDefault().                                                   *)
(***************************************************************************)
EXTENDS WiFi, TLAPS

networkVars == <<loopVars, wifiVars>>

-----------------------------------------------------------------------------
(* The default loop.  An answer a task is about to act on, and the member, *)
(* must already be true: they are read after the loop was looked at.       *)

DefaultType ==
  /\ default_running \in BOOLEAN /\ defaultLoop \in BOOLEAN
  /\ promised \in BOOLEAN /\ deleted \in BOOLEAN
  /\ asking \in [Starters -> {"idle", "create", "ok", "exists", "nomem"}]

AnswersTrue ==
  ~deleted =>
    /\ default_running => defaultLoop
    /\ promised => defaultLoop
    /\ \A t \in Starters : asking[t] \in {"ok", "exists"} => defaultLoop

DefaultInv == DefaultType /\ AnswersTrue

LEMMA LoopKeepsDefault == DefaultInv /\ LoopNext => DefaultInv'
<1> SUFFICES ASSUME DefaultInv, LoopNext PROVE DefaultInv'
  OBVIOUS
<1> USE DEF DefaultInv, DefaultType, AnswersTrue
<1>1. ASSUME NEW t \in Starters, AskDefault(t) PROVE DefaultInv'
  BY <1>1 DEF AskDefault
<1>2. ASSUME NEW t \in Starters, NEW memory \in BOOLEAN, CreateDefault(t, memory)
      PROVE  DefaultInv'
  BY <1>2 DEF CreateDefault
<1>3. ASSUME NEW t \in Starters, SetDefault(t) PROVE DefaultInv'
  BY <1>3 DEF SetDefault, Running
<1>4. CASE deinitDefault
  BY <1>4 DEF deinitDefault
<1> QED
  BY <1>1, <1>2, <1>3, <1>4 DEF LoopNext

LEMMA WiFiInitKeepsDefault ==
  ASSUME DefaultInv, NEW memory \in BOOLEAN, NEW fails, InitWiFi(memory, fails)
  PROVE  DefaultInv'
BY DEF DefaultInv, DefaultType, AnswersTrue, InitWiFi

LEMMA WiFiNextCases ==
  ASSUME WiFiNext
  PROVE  \/ LoopNext /\ UNCHANGED wifiVars
         \/ \E memory \in BOOLEAN, fails \in {"init", "storage", "mode", "start", "none"} :
              InitWiFi(memory, fails)
         \/ UNCHANGED loopVars
BY DEF WiFiNext, EnableAP, EnableSTA, SetAPConfig, SetSTAConfig, SetMode, StartWiFi,
       StopWiFi, Connect, Disconnect, ScanStations

(* However many tasks are inside initDefault(), init() of WIFI among them, *)
(* one that has said ESP_OK told the truth until deinitDefault().          *)
THEOREM PromiseKept == WiFiSpec => []DefaultIsThere
<1>1. NetworkInit => DefaultInv
  BY DEF NetworkInit, LoopInit, DefaultInv, DefaultType, AnswersTrue
<1>2. DefaultInv /\ [WiFiNext]_networkVars => DefaultInv'
  <2> SUFFICES ASSUME DefaultInv, [WiFiNext]_networkVars PROVE DefaultInv'
    OBVIOUS
  <2>1. CASE UNCHANGED loopVars
    BY <2>1 DEF loopVars, DefaultInv, DefaultType, AnswersTrue
  <2> QED
    BY <2>1, WiFiNextCases, LoopKeepsDefault, WiFiInitKeepsDefault DEF networkVars
<1>3. DefaultInv => DefaultIsThere
  BY DEF DefaultInv, DefaultType, AnswersTrue, DefaultIsThere
<1> QED
  BY <1>1, <1>2, <1>3, PTL DEF WiFiSpec, networkVars

-----------------------------------------------------------------------------
(* The modes.  What is enabled has to be in the object's mode too, or the  *)
(* next enable would leave it out; and that mode must be asked for, since  *)
(* it is the one the driver gets next.                                     *)

ModeInv ==
  /\ mode \subseteq Interfaces
  /\ granted \subseteq mode /\ granted \subseteq driverMode
  /\ mode \subseteq asked /\ driverMode \subseteq asked

LEMMA EnabledKeepsMode ==
  ASSUME ModeInv, NEW ifx \in Interfaces, NEW fails, Enabled(ifx, fails)
  PROVE  ModeInv'
<1>1. /\ mode \subseteq ModeWith(ifx) /\ ifx \in ModeWith(ifx)
      /\ ModeWith(ifx) \subseteq Interfaces
      /\ ModeWith(ifx) \subseteq mode \cup {ifx}
  BY DEF ModeWith, ModeInv, Interfaces
<1>2. mode' = ModeWith(ifx) /\ asked' = asked \cup {ifx}
  BY DEF Enabled, DriverMode
<1>3. CASE fails = "mode"
  <2>1. driverMode' = driverMode /\ granted' = granted
    BY <1>3 DEF Enabled, DriverMode
  <2> QED
    BY <1>1, <1>2, <2>1 DEF ModeInv
<1>4. CASE fails # "mode"
  <2>1. driverMode' = ModeWith(ifx)
    BY <1>4 DEF Enabled, DriverMode
  <2>2. granted' \subseteq granted \cup {ifx}
    BY DEF Enabled
  <2> QED
    BY <1>1, <1>2, <2>1, <2>2 DEF ModeInv
<1> QED
  BY <1>3, <1>4

LEMMA WiFiKeepsMode == ModeInv /\ WiFiNext => ModeInv'
<1> SUFFICES ASSUME ModeInv, WiFiNext PROVE ModeInv'
  OBVIOUS
<1>1. CASE UNCHANGED <<mode, driverMode, granted, asked>>
  BY <1>1 DEF ModeInv
<1>2. ASSUME NEW memory \in BOOLEAN, NEW fails, InitWiFi(memory, fails) PROVE ModeInv'
  <2>1. mode' \subseteq mode
    BY <1>2 DEF InitWiFi
  <2>2. granted' = {} /\ asked' = driverMode' \cup mode'
    BY <1>2 DEF InitWiFi
  <2> QED
    BY <2>1, <2>2 DEF ModeInv
<1>3. ASSUME NEW m \in SUBSET Interfaces, NEW ok \in BOOLEAN, SetMode(m, ok) PROVE ModeInv'
  <2>1. /\ mode' = m /\ granted' = {} /\ asked' = asked \cup m
        /\ driverMode' = m \/ driverMode' = driverMode
    BY <1>3 DEF SetMode, DriverMode
  <2> QED
    BY <2>1 DEF ModeInv
<1>4. ASSUME NEW memory \in BOOLEAN, NEW fails, EnableAP(memory, fails) PROVE ModeInv'
  <2>1. CASE Enabled("ap", fails)
    BY <2>1, EnabledKeepsMode DEF Interfaces
  <2> QED
    BY <1>1, <1>4, <2>1 DEF EnableAP
<1>5. ASSUME NEW connects \in BOOLEAN, NEW memory \in BOOLEAN, NEW fails,
             EnableSTA(connects, memory, fails)
      PROVE  ModeInv'
  <2>1. CASE Enabled("sta", fails)
    BY <2>1, EnabledKeepsMode DEF Interfaces
  <2> QED
    BY <1>1, <1>5, <2>1 DEF EnableSTA
<1> QED
  BY <1>1, <1>2, <1>3, <1>4, <1>5
     DEF WiFiNext, SetAPConfig, SetSTAConfig, StartWiFi, StopWiFi, Connect, Disconnect,
         ScanStations, wifiVars

(* Whatever fails, enabling one interface leaves the other as it was       *)
(* granted, and nothing is on that nobody asked for (WiFi::enableAP,       *)
(* enableSTA, setMode).                                                    *)
THEOREM EnabledKept == WiFiSpec => []EnabledStaysOn
<1>1. NetworkInit => ModeInv
  BY DEF NetworkInit, WiFiInit, ModeInv
<1>2. ModeInv /\ [WiFiNext]_networkVars => ModeInv'
  <2>1. ModeInv /\ UNCHANGED networkVars => ModeInv'
    BY DEF networkVars, wifiVars, ModeInv
  <2> QED
    BY <2>1, WiFiKeepsMode
<1>3. ModeInv => EnabledStaysOn
  BY DEF ModeInv, EnabledStaysOn
<1> QED
  BY <1>1, <1>2, <1>3, PTL DEF WiFiSpec, networkVars
=============================================================================

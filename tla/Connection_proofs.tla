----------------------------- MODULE Connection_proofs -----------------------------
(***************************************************************************)
(* The invariants of the run "connection", and that a connection is what   *)
(* Motor says, for any number of starts and all Failures.                  *)
(***************************************************************************)
EXTENDS Connection, TLAPS

USE MaxStartsAssumption, FailuresAssumption
USE DEF Handles, Null, InLoop, InCleanup, InError

LEMMA InitInv == Init => ConnectionInv
<1> SUFFICES ASSUME Init PROVE ConnectionInv
  OBVIOUS
<1> USE DEF Init
<1>1. port \in [Handles -> PortState] BY DEF PortState
<1>2. place \in [Handles -> ThreadPlace] BY DEF ThreadPlace
<1>3. gtk \in GtkPlace BY DEF GtkPlace
<1>4. 0 \in 0 .. MaxStarts OBVIOUS
<1>5. TypeOK BY <1>1, <1>2, <1>3, <1>4 DEF TypeOK
<1>6. Numbered /\ StartUnderWay /\ Ended
  BY DEF Numbered, StartUnderWay, Held, Ended, Starting
<1>7. DriverIsHeld /\ HeldHasPort BY DEF DriverIsHeld, HeldHasPort, Held
<1>8. CleanStop /\ LeaksExplained /\ JoinsOnce
  BY DEF CleanStop, LeaksExplained, Starting, JoinsOnce
<1> QED BY <1>5, <1>6, <1>7, <1>8 DEF ConnectionInv

LEMMA StutterInv == ConnectionInv /\ UNCHANGED vars => ConnectionInv'
<1> SUFFICES ASSUME ConnectionInv, UNCHANGED vars PROVE ConnectionInv'
  OBVIOUS
<1> USE DEF ConnectionInv, vars
<1>1. TypeOK' BY DEF TypeOK
<1>2. Numbered' /\ StartUnderWay' /\ Ended'
  BY DEF Numbered, StartUnderWay, Held, Ended, Starting
<1>3. DriverIsHeld' /\ HeldHasPort' BY DEF DriverIsHeld, HeldHasPort, Held
<1>4. CleanStop' /\ LeaksExplained' /\ JoinsOnce'
  BY DEF CleanStop, LeaksExplained, Starting, JoinsOnce
<1> QED BY <1>1, <1>2, <1>3, <1>4

LEMMA StartedHandle == ASSUME ConnectionInv, gtk \in {"open", "init", "create"}
                       PROVE  ser \in Handles /\ ~Held
<1>1. starts \in 0 .. MaxStarts /\ created \in 0 .. MaxStarts BY DEF ConnectionInv, TypeOK
<1>2. ser = starts /\ created < starts /\ ~Held BY DEF ConnectionInv, StartUnderWay
<1> QED BY <1>1, <1>2

--------------------------------------------------------------------------------
(* The GTK thread. *)

LEMMA SwitchOnInv == ASSUME ConnectionInv, SwitchOn PROVE ConnectionInv'
<1> USE DEF ConnectionInv, SwitchOn, UserActs, GtkFree, SetPort, StartFailed, threadVars
<1>1. starts' \in Handles /\ starts' = starts + 1 /\ ser' \in {starts', 0} /\ motorSwitch' = FALSE
  BY DEF TypeOK
<1>2. port' \in [Handles -> PortState] /\ gtk' \in GtkPlace
  BY DEF TypeOK, PortState, GtkPlace
<1>3. \/ gtk' = "open" /\ ser' = starts' /\ port' = [port EXCEPT ![starts'] = "closed"]
      \/ gtk' = "free" /\ ser' = 0 /\ port' = port
  BY DEF TypeOK
<1>4. gtk' = "open" => port'[ser'] = "closed" /\ created' < starts'
  BY <1>1, <1>3 DEF TypeOK, Numbered
<1>5. starts' \in 0 .. MaxStarts
  BY DEF TypeOK
<1>6. ser' \in 0 .. MaxStarts
  BY DEF TypeOK
<1>7. motorSwitch' \in BOOLEAN
  BY DEF TypeOK
<1>8. TypeOK' BY <1>1, <1>2, <1>3, <1>4, <1>5, <1>6, <1>7 DEF TypeOK
<1>9. Numbered' BY <1>1, <1>2, <1>3, <1>4, <1>5, <1>6, <1>7 DEF TypeOK, Numbered
<1>10. StartUnderWay'
  BY <1>1, <1>2, <1>3, <1>4, <1>5, <1>6, <1>7 DEF TypeOK, StartUnderWay, Held, Numbered
<1>11. DriverIsHeld'
  BY <1>1, <1>2, <1>3, <1>4, <1>5, <1>6, <1>7 DEF TypeOK, DriverIsHeld, Held, Numbered
<1>12. HeldHasPort'
  BY <1>1, <1>2, <1>3, <1>4, <1>5, <1>6, <1>7 DEF TypeOK, HeldHasPort, Held, Numbered
<1>13. Ended' BY <1>1, <1>2, <1>3, <1>4, <1>5, <1>6, <1>7 DEF TypeOK, Ended, Starting, Numbered
<1>14. CleanStop' BY <1>1, <1>2, <1>3, <1>4, <1>5, <1>6, <1>7 DEF TypeOK, CleanStop, Numbered
<1>15. LeaksExplained'
  BY <1>1, <1>2, <1>3, <1>4, <1>5, <1>6, <1>7 DEF TypeOK, LeaksExplained, Starting, Numbered
<1>16. JoinsOnce' BY <1>1, <1>2, <1>3, <1>4, <1>5, <1>6, <1>7 DEF TypeOK, JoinsOnce, Numbered
<1> QED BY <1>8, <1>9, <1>10, <1>11, <1>12, <1>13, <1>14, <1>15, <1>16

LEMMA OpenPortInv == ASSUME ConnectionInv, OpenPort PROVE ConnectionInv'
<1> USE DEF ConnectionInv, OpenPort, Free, SetPort, StartFailed, threadVars
<1>1. ser \in Handles /\ motorSwitch' = FALSE
  BY DEF TypeOK, Numbered, StartUnderWay, Held
<1>2. port' \in [Handles -> PortState] /\ gtk' \in GtkPlace
  BY DEF TypeOK, PortState, GtkPlace
<1>3. \/ gtk' = "init" /\ ser' = ser /\ port' = [port EXCEPT ![ser] = "open"]
      \/ gtk' = "free" /\ ser' = 0 /\ port' = [port EXCEPT ![ser] = "freed"]
  BY DEF TypeOK, StartUnderWay
<1>4. ser' \in 0 .. MaxStarts
  BY DEF TypeOK
<1>5. motorSwitch' \in BOOLEAN
  BY DEF TypeOK
<1>6. TypeOK' BY <1>1, <1>2, <1>3, <1>4, <1>5 DEF TypeOK
<1>7. Numbered' BY <1>1, <1>2, <1>3, <1>4, <1>5 DEF TypeOK, Numbered, StartUnderWay, Held
<1>8. StartUnderWay' BY <1>1, <1>2, <1>3, <1>4, <1>5 DEF TypeOK, StartUnderWay, Held, Numbered
<1>9. DriverIsHeld'
  BY <1>1, <1>2, <1>3, <1>4, <1>5 DEF TypeOK, DriverIsHeld, Held, Numbered, StartUnderWay
<1>10. HeldHasPort'
  BY <1>1, <1>2, <1>3, <1>4, <1>5 DEF TypeOK, HeldHasPort, Held, Numbered, StartUnderWay
<1>11. Ended'
  BY <1>1, <1>2, <1>3, <1>4, <1>5 DEF TypeOK, Ended, Starting, Numbered, StartUnderWay, Held
<1>12. CleanStop'
  BY <1>1, <1>2, <1>3, <1>4, <1>5 DEF TypeOK, CleanStop, Numbered, StartUnderWay, Held
<1>13. LeaksExplained'
  BY <1>1, <1>2, <1>3, <1>4, <1>5 DEF TypeOK, LeaksExplained, Starting, Numbered, StartUnderWay, Held
<1>14. JoinsOnce'
  BY <1>1, <1>2, <1>3, <1>4, <1>5 DEF TypeOK, JoinsOnce, Numbered, StartUnderWay, Held
<1> QED BY <1>6, <1>7, <1>8, <1>9, <1>10, <1>11, <1>12, <1>13, <1>14

LEMMA InitQueuesInv == ASSUME ConnectionInv, InitQueues PROVE ConnectionInv'
<1> USE DEF ConnectionInv, InitQueues, portVars, threadVars
<1>1. TypeOK' BY DEF TypeOK, GtkPlace
<1>2. Numbered' BY DEF TypeOK, Numbered, StartUnderWay, Held
<1>3. StartUnderWay' BY DEF TypeOK, StartUnderWay, Held
<1>4. DriverIsHeld' BY DEF TypeOK, DriverIsHeld, Held, StartUnderWay
<1>5. HeldHasPort' BY DEF TypeOK, HeldHasPort, Held, StartUnderWay
<1>6. Ended' BY DEF TypeOK, Ended, Starting, StartUnderWay, Held
<1>7. CleanStop' BY DEF TypeOK, CleanStop, StartUnderWay, Held
<1>8. LeaksExplained' BY DEF TypeOK, LeaksExplained, Starting, StartUnderWay, Held
<1>9. JoinsOnce' BY DEF TypeOK, JoinsOnce, StartUnderWay, Held
<1> QED BY <1>1, <1>2, <1>3, <1>4, <1>5, <1>6, <1>7, <1>8, <1>9

LEMMA CreateThreadInv == ASSUME ConnectionInv, CreateThread PROVE ConnectionInv'
<1> USE DEF ConnectionInv
<1>A. ser \in Nat \ {0} /\ created \in Nat
  <2>1. gtk = "create" BY DEF CreateThread
  <2>2. ser \in Handles BY <2>1, StartedHandle
  <2>3. created \in 0 .. MaxStarts BY DEF TypeOK
  <2> QED BY ONLY <2>2, <2>3, MaxStartsAssumption DEF Handles
<1>0. ser \in Handles /\ ~motorSwitch /\ ser = starts /\ created < starts /\ port[ser] = "open"
      /\ gtk = "create"
  BY StartedHandle DEF StartUnderWay, Held, CreateThread
<1>1. CASE /\ tinfo' = ser /\ created' = ser
           /\ Transition(ser, "none", "start")
           /\ gtk' = "set on"
           /\ UNCHANGED <<ser, port, motorSwitch>>
           /\ UNCHANGED <<starts, cancelled, joined, threadRunning, contextLocked, stopTried>>
  <2> USE <1>0, <1>1 DEF Transition
  <2>0. place' \in [Handles -> ThreadPlace] /\ gtk' \in GtkPlace
    BY DEF TypeOK, ThreadPlace, GtkPlace
  <2>1. TypeOK' BY <2>0 DEF TypeOK
  <2>2. Numbered'
    <3>1. ASSUME NEW h \in Handles, h > ser PROVE place'[h] = "none"
      <4>1. h > created /\ h # ser BY ONLY <1>0, <1>A, <3>1, h \in Handles, MaxStarts \in Nat
      <4>2. place[h] = "none" BY <4>1 DEF Numbered
      <4> QED BY <4>1, <4>2 DEF TypeOK
    <3>2. \A h \in Handles : h > starts => port[h] = "none" BY DEF Numbered
    <3>3. ser <= ser BY ONLY <1>A
    <3> QED BY <3>1, <3>2, <3>3 DEF Numbered
  <2>3. StartUnderWay' BY DEF StartUnderWay
  <2>4. DriverIsHeld' BY DEF TypeOK, Numbered, DriverIsHeld, Held
  <2>5. HeldHasPort'
    <3>1. place'[ser] = "start" BY DEF TypeOK
    <3>2. ser # 0 BY <1>A
    <3>3. ser \notin joined BY DEF Ended
    <3> QED BY <3>1, <3>2, <3>3 DEF HeldHasPort
  <2>6. Ended' BY DEF TypeOK, Ended, Starting
  <2>7. CleanStop' BY DEF TypeOK, CleanStop
  <2>8. LeaksExplained' BY DEF TypeOK, LeaksExplained, Starting
  <2>9. JoinsOnce' BY DEF TypeOK, JoinsOnce
  <2> QED BY <2>1, <2>2, <2>3, <2>4, <2>5, <2>6, <2>7, <2>8, <2>9
<1>2. CASE /\ tinfo' \in {tinfo, Null}
           /\ Free(ser) /\ StartFailed
           /\ UNCHANGED <<created, place>>
           /\ UNCHANGED <<starts, cancelled, joined, threadRunning, contextLocked, stopTried>>
  <2> USE <1>0, <1>2 DEF Free, SetPort, StartFailed
  <2>0. port' \in [Handles -> PortState] /\ gtk' \in GtkPlace /\ motorSwitch' \in BOOLEAN
    BY DEF TypeOK, PortState, GtkPlace
  <2>1. ser' \in 0 .. MaxStarts BY DEF TypeOK
  <2>2. tinfo' \in 0 .. MaxStarts BY DEF TypeOK
  <2>3. TypeOK' BY <2>0, <2>1, <2>2 DEF TypeOK
  <2>4. Numbered' BY DEF TypeOK, Numbered
  <2>5. StartUnderWay' BY DEF StartUnderWay
  <2>6. DriverIsHeld' BY DEF TypeOK, StartUnderWay, DriverIsHeld, Held
  <2>7. HeldHasPort' BY DEF HeldHasPort, Held
  <2>8. Ended' BY DEF TypeOK, Ended, Starting
  <2>9. CleanStop' BY DEF TypeOK, Numbered, CleanStop
  <2>10. LeaksExplained' BY DEF TypeOK, Numbered, LeaksExplained, Starting
  <2>11. JoinsOnce' BY DEF JoinsOnce
  <2> QED BY <2>3, <2>4, <2>5, <2>6, <2>7, <2>8, <2>9, <2>10, <2>11
<1> QED BY <1>1, <1>2 DEF CreateThread, threadVars

LEMMA SetOnInv == ASSUME ConnectionInv, SetOn PROVE ConnectionInv'
<1> USE DEF ConnectionInv, SetOn, portVars, threadVars
<1>1. TypeOK' BY DEF TypeOK, GtkPlace
<1>2. Numbered' BY DEF TypeOK, Numbered
<1>3. StartUnderWay' BY DEF TypeOK, StartUnderWay, Held
<1>4. DriverIsHeld' BY DEF TypeOK, DriverIsHeld, Held
<1>5. HeldHasPort' BY DEF TypeOK, HeldHasPort, Held
<1>6. Ended' BY DEF TypeOK, Ended, Starting
<1>7. CleanStop' BY DEF TypeOK, CleanStop
<1>8. LeaksExplained' BY DEF TypeOK, LeaksExplained, Starting
<1>9. JoinsOnce' BY DEF TypeOK, JoinsOnce, HeldHasPort, Held, DriverIsHeld, Ended
<1> QED BY <1>1, <1>2, <1>3, <1>4, <1>5, <1>6, <1>7, <1>8, <1>9

LEMMA SwitchOffInv == ASSUME ConnectionInv, SwitchOff PROVE ConnectionInv'
<1> USE DEF ConnectionInv, SwitchOff, UserActs, GtkFree, portVars
<1>1. tinfo \in Handles
  BY DEF TypeOK, JoinsOnce
<1>2. TypeOK' BY <1>1 DEF TypeOK, GtkPlace
<1>3. Numbered' BY <1>1 DEF TypeOK, Numbered, Held, JoinsOnce
<1>4. StartUnderWay' BY <1>1 DEF TypeOK, StartUnderWay, Held, JoinsOnce
<1>5. DriverIsHeld' BY <1>1 DEF TypeOK, DriverIsHeld, Held, JoinsOnce
<1>6. HeldHasPort' BY <1>1 DEF TypeOK, HeldHasPort, Held, JoinsOnce
<1>7. Ended' BY <1>1 DEF TypeOK, Ended, Starting, Held, JoinsOnce
<1>8. CleanStop' BY <1>1 DEF TypeOK, CleanStop, Held, JoinsOnce
<1>9. LeaksExplained' BY <1>1 DEF TypeOK, LeaksExplained, Starting, Held, JoinsOnce
<1>10. JoinsOnce' BY <1>1 DEF TypeOK, JoinsOnce, Held
<1> QED BY <1>2, <1>3, <1>4, <1>5, <1>6, <1>7, <1>8, <1>9, <1>10

LEMMA JoinReturnsInv == ASSUME ConnectionInv, JoinReturns PROVE ConnectionInv'
<1> USE DEF ConnectionInv, JoinReturns, portVars
<1>1. tinfo \in Handles
  BY DEF TypeOK, JoinsOnce
<1>2. TypeOK' BY <1>1 DEF TypeOK, GtkPlace
<1>3. Numbered' BY <1>1 DEF TypeOK, Numbered, Held, JoinsOnce, HeldHasPort
<1>4. StartUnderWay' BY <1>1 DEF TypeOK, StartUnderWay, Held, JoinsOnce, HeldHasPort
<1>5. DriverIsHeld' BY <1>1 DEF TypeOK, DriverIsHeld, Held, JoinsOnce, HeldHasPort
<1>6. HeldHasPort' BY <1>1 DEF TypeOK, HeldHasPort, Held, JoinsOnce
<1>7. Ended' BY <1>1 DEF TypeOK, Ended, Starting, Held, JoinsOnce, HeldHasPort, DriverIsHeld
<1>8. CleanStop' BY <1>1 DEF TypeOK, CleanStop, Held, JoinsOnce, HeldHasPort
<1>9. LeaksExplained' BY <1>1 DEF TypeOK, LeaksExplained, Starting, Held, JoinsOnce, HeldHasPort
<1>10. JoinsOnce' BY <1>1 DEF TypeOK, JoinsOnce, Held, HeldHasPort
<1> QED BY <1>2, <1>3, <1>4, <1>5, <1>6, <1>7, <1>8, <1>9, <1>10

LEMMA QuitInv == ASSUME ConnectionInv, Quit PROVE ConnectionInv'
<1> USE DEF ConnectionInv, Quit, UserActs, GtkFree, portVars, threadVars
<1>1. TypeOK' BY DEF TypeOK, GtkPlace
<1>2. Numbered' BY DEF TypeOK, Numbered
<1>3. StartUnderWay' BY DEF TypeOK, StartUnderWay, Held
<1>4. DriverIsHeld' BY DEF TypeOK, DriverIsHeld, Held
<1>5. HeldHasPort' BY DEF TypeOK, HeldHasPort, Held
<1>6. Ended' BY DEF TypeOK, Ended, Starting
<1>7. CleanStop' BY DEF TypeOK, CleanStop
<1>8. LeaksExplained' BY DEF TypeOK, LeaksExplained, Starting
<1>9. JoinsOnce' BY DEF TypeOK, JoinsOnce
<1> QED BY <1>1, <1>2, <1>3, <1>4, <1>5, <1>6, <1>7, <1>8, <1>9

--------------------------------------------------------------------------------
(* The serial thread. *)

LEMMA SendHelloInv == ASSUME ConnectionInv, NEW t \in Handles, SendHello(t) PROVE ConnectionInv'
<1> USE DEF ConnectionInv, SendHello, Transition, Steady, portVars, threadVars
<1>1. place' \in [Handles -> ThreadPlace]
  BY DEF TypeOK, ThreadPlace
<1>2. TypeOK' BY <1>1 DEF TypeOK
<1>3. Numbered' BY <1>1 DEF TypeOK, Numbered
<1>4. StartUnderWay' BY <1>1 DEF TypeOK, StartUnderWay, Held
<1>5. DriverIsHeld' BY <1>1 DEF TypeOK, DriverIsHeld, Held
<1>6. HeldHasPort' BY <1>1 DEF TypeOK, HeldHasPort, Held, DriverIsHeld
<1>7. Ended' BY <1>1 DEF TypeOK, Ended, Starting
<1>8. CleanStop' BY <1>1 DEF TypeOK, CleanStop
<1>9. LeaksExplained' BY <1>1 DEF TypeOK, LeaksExplained, Starting
<1>10. JoinsOnce' BY <1>1 DEF TypeOK, JoinsOnce, DriverIsHeld
<1> QED BY <1>2, <1>3, <1>4, <1>5, <1>6, <1>7, <1>8, <1>9, <1>10

LEMMA EnterLoopInv == ASSUME ConnectionInv, NEW t \in Handles, EnterLoop(t) PROVE ConnectionInv'
<1> USE DEF ConnectionInv, EnterLoop, Transition, Steady, portVars, threadVars
<1>1. place' \in [Handles -> ThreadPlace]
  BY DEF TypeOK, ThreadPlace
<1>2. TypeOK' BY <1>1 DEF TypeOK
<1>3. Numbered' BY <1>1 DEF TypeOK, Numbered
<1>4. StartUnderWay' BY <1>1 DEF TypeOK, StartUnderWay, Held
<1>5. DriverIsHeld' BY <1>1 DEF TypeOK, DriverIsHeld, Held
<1>6. HeldHasPort' BY <1>1 DEF TypeOK, HeldHasPort, Held, DriverIsHeld
<1>7. Ended' BY <1>1 DEF TypeOK, Ended, Starting
<1>8. CleanStop' BY <1>1 DEF TypeOK, CleanStop
<1>9. LeaksExplained' BY <1>1 DEF TypeOK, LeaksExplained, Starting
<1>10. JoinsOnce' BY <1>1 DEF TypeOK, JoinsOnce, DriverIsHeld
<1> QED BY <1>2, <1>3, <1>4, <1>5, <1>6, <1>7, <1>8, <1>9, <1>10

LEMMA TurnInv == ASSUME ConnectionInv, NEW t \in Handles, Turn(t) PROVE ConnectionInv'
<1> USE DEF ConnectionInv, Turn, Passes, Transition, Steady, portVars, threadVars
<1>1. place' \in [Handles -> ThreadPlace]
  BY DEF TypeOK, ThreadPlace
<1>2. TypeOK' BY <1>1 DEF TypeOK
<1>3. Numbered' BY <1>1 DEF TypeOK, Numbered
<1>4. StartUnderWay' BY <1>1 DEF TypeOK, StartUnderWay, Held
<1>5. DriverIsHeld' BY <1>1 DEF TypeOK, DriverIsHeld, Held
<1>6. HeldHasPort' BY <1>1 DEF TypeOK, HeldHasPort, Held, DriverIsHeld
<1>7. Ended' BY <1>1 DEF TypeOK, Ended, Starting
<1>8. CleanStop' BY <1>1 DEF TypeOK, CleanStop
<1>9. LeaksExplained' BY <1>1 DEF TypeOK, LeaksExplained, Starting
<1>10. JoinsOnce' BY <1>1 DEF TypeOK, JoinsOnce, DriverIsHeld
<1> QED BY <1>2, <1>3, <1>4, <1>5, <1>6, <1>7, <1>8, <1>9, <1>10

LEMMA ErrorSwitchesOffInv == ASSUME ConnectionInv, NEW t \in Handles, ErrorSwitchesOff(t) PROVE ConnectionInv'
<1> USE DEF ConnectionInv, ErrorSwitchesOff, Transition, Steady, portVars, threadVars
<1>1. place' \in [Handles -> ThreadPlace]
  BY DEF TypeOK, ThreadPlace
<1>2. TypeOK' BY <1>1 DEF TypeOK
<1>3. Numbered' BY <1>1 DEF TypeOK, Numbered
<1>4. StartUnderWay' BY <1>1 DEF TypeOK, StartUnderWay, Held
<1>5. DriverIsHeld' BY <1>1 DEF TypeOK, DriverIsHeld, Held
<1>6. HeldHasPort' BY <1>1 DEF TypeOK, HeldHasPort, Held, DriverIsHeld
<1>7. Ended' BY <1>1 DEF TypeOK, Ended, Starting
<1>8. CleanStop' BY <1>1 DEF TypeOK, CleanStop
<1>9. LeaksExplained' BY <1>1 DEF TypeOK, LeaksExplained, Starting
<1>10. JoinsOnce' BY <1>1 DEF TypeOK, JoinsOnce, DriverIsHeld
<1> QED BY <1>2, <1>3, <1>4, <1>5, <1>6, <1>7, <1>8, <1>9, <1>10

LEMMA DialogShowsInv == ASSUME ConnectionInv, NEW t \in Handles, DialogShows(t) PROVE ConnectionInv'
<1> USE DEF ConnectionInv, DialogShows, Transition, Steady, portVars, threadVars
<1>1. place' \in [Handles -> ThreadPlace]
  BY DEF TypeOK, ThreadPlace
<1>2. TypeOK' BY <1>1 DEF TypeOK
<1>3. Numbered' BY <1>1 DEF TypeOK, Numbered
<1>4. StartUnderWay' BY <1>1 DEF TypeOK, StartUnderWay, Held
<1>5. DriverIsHeld' BY <1>1 DEF TypeOK, DriverIsHeld, Held
<1>6. HeldHasPort'
  <2>1. CASE t = created BY <2>1 DEF TypeOK, HeldHasPort, Held
  <2>2. CASE t # created
    <3>1. place'[created] = place[created] BY <2>2 DEF TypeOK
    <3>2. Held' <=> Held BY DEF Held
    <3> QED BY <3>1, <3>2 DEF HeldHasPort
  <2> QED BY <2>1, <2>2
<1>7. Ended' BY <1>1 DEF TypeOK, Ended, Starting
<1>8. CleanStop' BY <1>1 DEF TypeOK, CleanStop
<1>9. LeaksExplained' BY <1>1 DEF TypeOK, LeaksExplained, Starting
<1>10. JoinsOnce' BY <1>1 DEF TypeOK, JoinsOnce, DriverIsHeld
<1> QED BY <1>2, <1>3, <1>4, <1>5, <1>6, <1>7, <1>8, <1>9, <1>10

LEMMA DialogClosedInv == ASSUME ConnectionInv, NEW t \in Handles, DialogClosed(t) PROVE ConnectionInv'
<1> USE DEF ConnectionInv, DialogClosed, GtkFree, AfterError, Transition, Steady, portVars, threadVars
<1>1. place' \in [Handles -> ThreadPlace]
  BY DEF TypeOK, ThreadPlace
<1>2. TypeOK' BY <1>1 DEF TypeOK
<1>3. Numbered' BY <1>1 DEF TypeOK, Numbered
<1>4. StartUnderWay' BY <1>1 DEF TypeOK, StartUnderWay, Held
<1>5. DriverIsHeld' BY <1>1 DEF TypeOK, DriverIsHeld, Held
<1>6. HeldHasPort' BY <1>1 DEF TypeOK, HeldHasPort, Held, DriverIsHeld
<1>7. Ended' BY <1>1 DEF TypeOK, Ended, Starting
<1>8. CleanStop' BY <1>1 DEF TypeOK, CleanStop
<1>9. LeaksExplained' BY <1>1 DEF TypeOK, LeaksExplained, Starting
<1>10. JoinsOnce' BY <1>1 DEF TypeOK, JoinsOnce, DriverIsHeld
<1> QED BY <1>2, <1>3, <1>4, <1>5, <1>6, <1>7, <1>8, <1>9, <1>10

LEMMA LeaveInv == ASSUME ConnectionInv, NEW t \in Handles, Leave(t) PROVE ConnectionInv'
<1> USE DEF ConnectionInv, Leave, Transition, Steady, portVars, threadVars
<1>1. place' \in [Handles -> ThreadPlace]
  BY DEF TypeOK, ThreadPlace
<1>2. TypeOK' BY <1>1 DEF TypeOK
<1>3. Numbered' BY <1>1 DEF TypeOK, Numbered
<1>4. StartUnderWay' BY <1>1 DEF TypeOK, StartUnderWay, Held
<1>5. DriverIsHeld' BY <1>1 DEF TypeOK, DriverIsHeld, Held
<1>6. HeldHasPort'
  <2>1. CASE t = created BY <2>1 DEF TypeOK, HeldHasPort, Held
  <2>2. CASE t # created
    <3>1. place'[created] = place[created] BY <2>2 DEF TypeOK
    <3>2. Held' <=> Held BY DEF Held
    <3> QED BY <3>1, <3>2 DEF HeldHasPort
  <2> QED BY <2>1, <2>2
<1>7. Ended' BY <1>1 DEF TypeOK, Ended, Starting
<1>8. CleanStop' BY <1>1 DEF TypeOK, CleanStop
<1>9. LeaksExplained' BY <1>1 DEF TypeOK, LeaksExplained, Starting
<1>10. JoinsOnce' BY <1>1 DEF TypeOK, JoinsOnce, DriverIsHeld
<1> QED BY <1>2, <1>3, <1>4, <1>5, <1>6, <1>7, <1>8, <1>9, <1>10

LEMMA CancelActsInv == ASSUME ConnectionInv, NEW t \in Handles, CancelActs(t) PROVE ConnectionInv'
<1> USE DEF ConnectionInv, CancelActs, CancelPoints, FirstOfCleanup, RunningAfterCancel, portVars, threadVars
<1>1. place' \in [Handles -> ThreadPlace]
  BY DEF TypeOK, ThreadPlace
<1>2. gtk = "join" /\ t = tinfo /\ t = created /\ ser = t /\ port[t] = "open"
  BY DEF TypeOK, DriverIsHeld, HeldHasPort, Held
<1>3. TypeOK' BY <1>1, <1>2 DEF TypeOK
<1>4. Numbered' BY <1>1, <1>2 DEF TypeOK, Numbered
<1>5. StartUnderWay' BY <1>1, <1>2 DEF TypeOK, StartUnderWay, Held
<1>6. DriverIsHeld' BY <1>1, <1>2 DEF TypeOK, DriverIsHeld, Held
<1>7. HeldHasPort' BY <1>1, <1>2 DEF TypeOK, HeldHasPort, Held
<1>8. Ended' BY <1>1, <1>2 DEF TypeOK, Ended, Starting
<1>9. CleanStop' BY <1>1, <1>2 DEF TypeOK, CleanStop
<1>10. LeaksExplained' BY <1>1, <1>2 DEF TypeOK, LeaksExplained, Starting
<1>11. JoinsOnce' BY <1>1, <1>2 DEF TypeOK, JoinsOnce
<1> QED BY <1>3, <1>4, <1>5, <1>6, <1>7, <1>8, <1>9, <1>10, <1>11

LEMMA SendStopInv == ASSUME ConnectionInv, NEW t \in Handles, SendStop(t) PROVE ConnectionInv'
<1> USE DEF ConnectionInv, SendStop, Transition, threadVars
<1>1. place' \in [Handles -> ThreadPlace]
  BY DEF TypeOK, ThreadPlace
<1>2. gtk = "join" /\ t = tinfo /\ t = created /\ ser = t /\ port[t] = "open"
  BY DEF TypeOK, DriverIsHeld, HeldHasPort, Held
<1>3. stopTried' = stopTried \cup {t}
  BY <1>2 DEF TypeOK
<1>4. TypeOK' BY <1>1, <1>2, <1>3 DEF TypeOK
<1>5. Numbered' BY <1>1, <1>2, <1>3 DEF TypeOK, Numbered
<1>6. StartUnderWay' BY <1>1, <1>2, <1>3 DEF TypeOK, StartUnderWay, Held
<1>7. DriverIsHeld' BY <1>1, <1>2, <1>3 DEF TypeOK, DriverIsHeld, Held
<1>8. HeldHasPort' BY <1>1, <1>2, <1>3 DEF TypeOK, HeldHasPort, Held
<1>9. Ended' BY <1>1, <1>2, <1>3 DEF TypeOK, Ended, Starting
<1>10. CleanStop' BY <1>1, <1>2, <1>3 DEF TypeOK, CleanStop
<1>11. LeaksExplained' BY <1>1, <1>2, <1>3 DEF TypeOK, LeaksExplained, Starting
<1>12. JoinsOnce' BY <1>1, <1>2, <1>3 DEF TypeOK, JoinsOnce
<1> QED BY <1>4, <1>5, <1>6, <1>7, <1>8, <1>9, <1>10, <1>11, <1>12

LEMMA ClosePortInv == ASSUME ConnectionInv, NEW t \in Handles, ClosePort(t) PROVE ConnectionInv'
<1> USE DEF ConnectionInv, ClosePort, Closed, Transition, SetPort, threadVars
<1>1. place' \in [Handles -> ThreadPlace]
  BY DEF TypeOK, ThreadPlace
<1>2. gtk = "join" /\ t = tinfo /\ t = created /\ ser = t /\ port[t] = "open"
  BY DEF TypeOK, DriverIsHeld, HeldHasPort, Held
<1>3. port' \in [Handles -> PortState] /\ port' = [port EXCEPT ![t] = "closed"]
  BY <1>2 DEF TypeOK, PortState
<1>4. TypeOK' BY <1>1, <1>2, <1>3 DEF TypeOK
<1>5. Numbered' BY <1>1, <1>2, <1>3 DEF TypeOK, Numbered
<1>6. StartUnderWay' BY <1>1, <1>2, <1>3 DEF TypeOK, StartUnderWay, Held
<1>7. DriverIsHeld' BY <1>1, <1>2, <1>3 DEF TypeOK, DriverIsHeld, Held
<1>8. HeldHasPort' BY <1>1, <1>2, <1>3 DEF TypeOK, HeldHasPort, Held
<1>9. Ended' BY <1>1, <1>2, <1>3 DEF TypeOK, Ended, Starting
<1>10. CleanStop' BY <1>1, <1>2, <1>3 DEF TypeOK, CleanStop
<1>11. LeaksExplained' BY <1>1, <1>2, <1>3 DEF TypeOK, LeaksExplained, Starting
<1>12. JoinsOnce' BY <1>1, <1>2, <1>3 DEF TypeOK, JoinsOnce
<1> QED BY <1>4, <1>5, <1>6, <1>7, <1>8, <1>9, <1>10, <1>11, <1>12

LEMMA FreePortInv == ASSUME ConnectionInv, NEW t \in Handles, FreePort(t) PROVE ConnectionInv'
<1> USE DEF ConnectionInv, FreePort, Free, Transition, SetPort, threadVars
<1>1. place' \in [Handles -> ThreadPlace]
  BY DEF TypeOK, ThreadPlace
<1>2. gtk = "join" /\ t = tinfo /\ t = created /\ ser = t /\ port[t] = "closed"
  BY DEF TypeOK, DriverIsHeld, HeldHasPort, Held
<1>3. port' \in [Handles -> PortState] /\ port' = [port EXCEPT ![t] = "freed"] /\ ser' = 0
  BY <1>2 DEF TypeOK, PortState
<1>4. TypeOK' BY <1>1, <1>2, <1>3 DEF TypeOK
<1>5. Numbered' BY <1>1, <1>2, <1>3 DEF TypeOK, Numbered
<1>6. StartUnderWay' BY <1>1, <1>2, <1>3 DEF TypeOK, StartUnderWay, Held
<1>7. DriverIsHeld' BY <1>1, <1>2, <1>3 DEF TypeOK, DriverIsHeld, Held
<1>8. HeldHasPort' BY <1>1, <1>2, <1>3 DEF TypeOK, HeldHasPort, Held
<1>9. Ended' BY <1>1, <1>2, <1>3 DEF TypeOK, Ended, Starting
<1>10. CleanStop' BY <1>1, <1>2, <1>3 DEF TypeOK, CleanStop, Ended
<1>11. LeaksExplained' BY <1>1, <1>2, <1>3 DEF TypeOK, LeaksExplained, Starting
<1>12. JoinsOnce' BY <1>1, <1>2, <1>3 DEF TypeOK, JoinsOnce
<1> QED BY <1>4, <1>5, <1>6, <1>7, <1>8, <1>9, <1>10, <1>11, <1>12

--------------------------------------------------------------------------------
LEMMA NextInv == ASSUME ConnectionInv, [Next]_vars PROVE ConnectionInv'
<1>1. CASE Start
  BY <1>1, SwitchOnInv, OpenPortInv, InitQueuesInv, CreateThreadInv, SetOnInv DEF Start
<1>2. CASE SwitchOff \/ JoinReturns \/ Quit BY <1>2, SwitchOffInv, JoinReturnsInv, QuitInv
<1>3. ASSUME NEW t \in Handles, Loop(t) PROVE ConnectionInv'
  BY <1>3, SendHelloInv, EnterLoopInv, TurnInv DEF Loop
<1>4. ASSUME NEW t \in Handles, Failing(t) \/ DialogClosed(t) PROVE ConnectionInv'
  BY <1>4, ErrorSwitchesOffInv, DialogShowsInv, DialogClosedInv, LeaveInv DEF Failing
<1>5. ASSUME NEW t \in Handles, Cleanup(t) PROVE ConnectionInv'
  BY <1>5, CancelActsInv, SendStopInv, ClosePortInv, FreePortInv DEF Cleanup
<1>6. CASE UNCHANGED vars BY <1>6, StutterInv
<1> QED BY <1>1, <1>2, <1>3, <1>4, <1>5, <1>6 DEF Next, Gtk, Serial

(* In every reachable state the handle, the port, the thread and the switch  *)
(* fit together: each conjunct of ConnectionInv holds however often the      *)
(* motor is started and whichever calls fail.                                *)
THEOREM ConnectionInvariant == Spec => []ConnectionInv
<1>1. Init => ConnectionInv BY InitInv
<1>2. ConnectionInv /\ [Next]_vars => ConnectionInv' BY NextInv
<1> QED BY <1>1, <1>2, PTL DEF Spec

(* The thread that may use ser_ and the queues is the one ser_ was set for,  *)
(* and its port is open (proto_comms_serial_thread_func).                    *)
THEOREM ThreadUsesOwnPort == Spec => []UsesOwnPort
<1>1. ConnectionInv => UsesOwnPort
  BY DEF ConnectionInv, TypeOK, DriverIsHeld, HeldHasPort, UsesOwnPort
<1> QED BY <1>1, ConnectionInvariant, PTL

(* proto_comms_serial_thread_cleanup always has a port to write STOP to, and *)
(* what it closes and frees is its own.                                      *)
THEOREM CancelledThreadStopsMachine == Spec => []CleanStop
<1>1. ConnectionInv => CleanStop BY DEF ConnectionInv
<1> QED BY <1>1, ConnectionInvariant, PTL

(* serial_free and serial_new lose a descriptor in the two ways stated only. *)
THEOREM PortLeaksExplained == Spec => []LeaksExplained
<1>1. ConnectionInv => LeaksExplained BY DEF ConnectionInv
<1> QED BY <1>1, ConnectionInvariant, PTL

(* pthread_cancel and pthread_join are only given a thread that may be       *)
(* joined, although tinfo_ keeps its value (proto_comms_stop_...).           *)
THEOREM ThreadJoinedOnce == Spec => []JoinsOnce
<1>1. ConnectionInv => JoinsOnce BY DEF ConnectionInv
<1> QED BY <1>1, ConnectionInvariant, PTL
--------------------------------------------------------------------------------
(* What the GUI sees is a Motor. *)

LEMMA InitMotor == Init => Motor!Init
<1> SUFFICES ASSUME Init PROVE Motor!Init
  OBVIOUS
<1> QED BY DEF Init, Motor!Init, ShownSwitch, ThreadSeen

LEMMA StutterMotor == UNCHANGED vars => UNCHANGED Motor!vars
  BY DEF vars, Motor!vars, ShownSwitch, ThreadSeen, Cancelling

LEMMA StartMotor == ASSUME ConnectionInv, Start PROVE [Motor!Next]_Motor!vars
<1> USE DEF ConnectionInv
<1>1. CASE SwitchOn \/ OpenPort \/ InitQueues
  <2>1. /\ gtk \in {"free", "open", "init"} /\ motorSwitch = FALSE
        /\ gtk' \in {"free", "open", "init", "create"} /\ motorSwitch' = FALSE
    <3>1. motorSwitch \in BOOLEAN BY DEF TypeOK
    <3>2. CASE SwitchOn BY <3>1, <3>2 DEF SwitchOn, UserActs, GtkFree, StartFailed
    <3>3. CASE OpenPort BY <3>1, <3>3 DEF OpenPort, StartFailed, StartUnderWay, Held
    <3>4. CASE InitQueues BY <3>1, <3>4 DEF InitQueues, StartUnderWay, Held
    <3> QED BY <1>1, <3>2, <3>3, <3>4
  <2>2. UNCHANGED <<created, joined, place, threadRunning>>
    BY <1>1 DEF SwitchOn, OpenPort, InitQueues, threadVars
  <2>3. ShownSwitch = FALSE /\ ShownSwitch' = FALSE BY <2>1 DEF ShownSwitch
  <2> QED BY <2>2, <2>3 DEF Motor!vars, ThreadSeen
<1>2. CASE CreateThread
  <2>1. ser \in Handles /\ ~motorSwitch /\ gtk = "create"
    BY <1>2, StartedHandle DEF CreateThread, Held
  <2>2. CASE gtk' = "set on"
    <3>1. Transition(ser, "none", "start") /\ created' = ser /\ joined' = joined /\ threadRunning' = threadRunning
      BY <1>2, <2>2 DEF CreateThread, StartFailed
    <3>2. place'[ser] = "start" /\ ser \notin joined /\ ser # 0
      BY <2>1, <3>1 DEF Transition, TypeOK, Ended
    <3>3. ThreadSeen' = "start" BY <3>1, <3>2 DEF ThreadSeen
    <3>4. ShownSwitch = FALSE /\ ShownSwitch' = TRUE BY <2>1, <2>2 DEF ShownSwitch
    <3> QED BY <3>1, <3>3, <3>4 DEF Motor!Next, Motor!On
  <2>3. CASE gtk' # "set on"
    <3>1. ShownSwitch = FALSE /\ ShownSwitch' = FALSE
          /\ UNCHANGED <<created, joined, place, threadRunning>>
      BY <1>2, <2>1, <2>3 DEF CreateThread, StartFailed, ShownSwitch
    <3> QED BY <3>1 DEF Motor!vars, ThreadSeen
  <2> QED BY <2>2, <2>3
<1>3. CASE SetOn
  <2>1. ShownSwitch = TRUE /\ ShownSwitch' = TRUE /\ UNCHANGED <<created, joined, place, threadRunning>>
    BY <1>3 DEF SetOn, threadVars, ShownSwitch
  <2> QED BY <2>1 DEF Motor!vars, ThreadSeen
<1> QED BY <1>1, <1>2, <1>3 DEF Start

LEMMA StopMotor == ASSUME ConnectionInv, SwitchOff \/ JoinReturns \/ Quit
                   PROVE  [Motor!Next]_Motor!vars
<1> USE DEF ConnectionInv
<1>1. CASE SwitchOff
  <2>1. ~Cancelling
    BY <1>1 DEF SwitchOff, UserActs, GtkFree, TypeOK, JoinsOnce, DriverIsHeld, Ended, Cancelling
  <2>2. ShownSwitch = TRUE /\ ShownSwitch' = TRUE /\ UNCHANGED <<created, joined, place, threadRunning>>
    BY <1>1, <2>1 DEF SwitchOff, UserActs, GtkFree, ShownSwitch, Cancelling
  <2> QED BY <2>2 DEF Motor!vars, ThreadSeen
<1>2. CASE JoinReturns
  <2>1. /\ gtk = "join" /\ tinfo = created /\ created \in Handles /\ created \notin joined
        /\ created' = created /\ created \in joined' /\ threadRunning' = threadRunning
    BY <1>2 DEF JoinReturns, TypeOK, HeldHasPort, Held
  <2>2. ThreadSeen' = "none" /\ ShownSwitch' = FALSE
    BY <1>2, <2>1 DEF JoinReturns, ThreadSeen, ShownSwitch
  <2>3. CASE place[tinfo] = "cancelled"
    <3>1. ThreadSeen = "none" /\ ShownSwitch = FALSE
      BY <2>1, <2>3 DEF ThreadSeen, ShownSwitch, Cancelling
    <3> QED BY <2>1, <2>2, <3>1 DEF Motor!vars
  <2>4. CASE place[tinfo] = "ended"
    <3>1. ThreadSeen = "ended" /\ ShownSwitch = TRUE
      BY <2>1, <2>4 DEF ThreadSeen, ShownSwitch, Cancelling
    <3> QED BY <2>1, <2>2, <3>1 DEF Motor!Next, Motor!Off, Motor!FlagsWhenOff, Motor!Live
  <2> QED BY <1>2, <2>3, <2>4 DEF JoinReturns
<1>3. CASE Quit
  <2>1. ShownSwitch' = ShownSwitch /\ UNCHANGED <<created, joined, place, threadRunning>>
    BY <1>3 DEF Quit, UserActs, GtkFree, threadVars, ShownSwitch
  <2> QED BY <2>1 DEF Motor!vars, ThreadSeen
<1> QED BY <1>1, <1>2, <1>3
LEMMA LoopMotor == ASSUME ConnectionInv, NEW t \in Handles, Loop(t)
                   PROVE  [Motor!Next]_Motor!vars
<1> USE DEF ConnectionInv
<1>1. /\ place[t] \in {"start", "hello", "poll", "turn", "post"}
      /\ UNCHANGED <<tinfo, created, joined, gtk, motorSwitch>>
  BY DEF Loop, SendHello, EnterLoop, Turn, Passes, Transition, Steady, threadVars
<1>2. Held /\ t = created /\ t = tinfo /\ t # 0 /\ t \notin joined
  BY <1>1 DEF DriverIsHeld, HeldHasPort
<1>3. place'[t] \in InLoop \cup {"error", "leaving"}
  BY DEF Loop, SendHello, EnterLoop, Turn, Passes, Transition, TypeOK
<1>4. ShownSwitch' = ShownSwitch BY <1>1, <1>2, <1>3 DEF ShownSwitch, Cancelling
<1>5. CASE SendHello(t)
  <2>1. place[t] = "start" /\ place'[t] = "hello" /\ threadRunning' = threadRunning
    BY <1>5 DEF SendHello, Transition, TypeOK
  <2>2. ThreadSeen = "start" /\ ThreadSeen' = "hello" BY <1>1, <1>2, <2>1 DEF ThreadSeen
  <2> QED BY <1>4, <2>1, <2>2 DEF Motor!Next, Motor!Hello
<1>6. CASE EnterLoop(t)
  <2>1. place[t] = "hello" /\ place'[t] = "poll" /\ threadRunning' = TRUE
    BY <1>6 DEF EnterLoop, Transition, TypeOK
  <2>2. ThreadSeen = "hello" /\ ThreadSeen' = "loop" BY <1>1, <1>2, <2>1 DEF ThreadSeen
  <2> QED BY <1>4, <2>1, <2>2 DEF Motor!Next, Motor!Enter
<1>7. CASE Turn(t)
  <2>1. /\ place[t] \in {"poll", "turn", "post"} /\ threadRunning' = threadRunning
        /\ place'[t] \in {"poll", "turn", "post", "error", "leaving"}
    BY <1>7 DEF Turn, Passes, Transition, TypeOK
  <2>2. ThreadSeen = "loop" BY <1>2, <2>1 DEF ThreadSeen
  <2>3. CASE place'[t] = "leaving"
    <3>1. ThreadSeen' = "ended" BY <1>1, <1>2, <2>3 DEF ThreadSeen
    <3> QED BY <1>4, <2>1, <2>2, <3>1 DEF Motor!Next, Motor!End, Motor!Ended
  <2>4. CASE place'[t] # "leaving"
    <3>1. ThreadSeen' = "loop" BY <1>1, <1>2, <2>1, <2>4 DEF ThreadSeen
    <3> QED BY <1>4, <2>1, <2>2, <3>1 DEF Motor!vars
  <2> QED BY <2>3, <2>4
<1> QED BY <1>5, <1>6, <1>7 DEF Loop

LEMMA FailingMotor == ASSUME ConnectionInv, NEW t \in Handles, Failing(t) \/ DialogClosed(t)
                      PROVE  [Motor!Next]_Motor!vars
<1> USE DEF ConnectionInv
<1>1. UNCHANGED <<tinfo, created, joined, gtk, threadRunning>>
  BY DEF Failing, ErrorSwitchesOff, DialogShows, DialogClosed, Leave, Steady, threadVars
<1>2. CASE ErrorSwitchesOff(t)
  <2>1. place[t] = "error" /\ place'[t] = "opening" /\ motorSwitch' = FALSE
    BY <1>2 DEF ErrorSwitchesOff, Transition, TypeOK
  <2>2. Held /\ t = created /\ t = tinfo /\ t # 0 /\ t \notin joined
    BY <2>1 DEF DriverIsHeld, HeldHasPort
  <2>3. ThreadSeen = "loop" /\ ThreadSeen' = "ended" BY <1>1, <2>1, <2>2 DEF ThreadSeen
  <2>4. ShownSwitch' \in {FALSE, ShownSwitch}
    BY <1>1, <2>1, <2>2 DEF ShownSwitch, Cancelling
  <2> QED BY <1>1, <2>3, <2>4 DEF Motor!Next, Motor!End, Motor!Ended
<1>3. CASE DialogShows(t) \/ DialogClosed(t) \/ Leave(t)
  <2>1. /\ place[t] \in {"opening", "dialog", "leaving"} /\ motorSwitch' = motorSwitch
        /\ place'[t] \in {"dialog", "leaving", "ended"}
        /\ \A s \in Handles \ {t} : place'[s] = place[s]
    BY <1>3 DEF DialogShows, DialogClosed, AfterError, Leave, Transition, TypeOK
  <2>2. ThreadSeen' = ThreadSeen
    <3>1. CASE t = created BY <1>1, <2>1, <3>1 DEF ThreadSeen
    <3>2. CASE created = 0 BY <1>1, <3>2 DEF ThreadSeen
    <3>3. CASE created \in Handles \ {t}
      <4>1. place'[created] = place[created] BY <2>1, <3>3
      <4> QED BY <1>1, <4>1 DEF ThreadSeen
    <3> QED BY <3>1, <3>2, <3>3 DEF TypeOK
  <2>3. Cancelling' = Cancelling
    <3>1. CASE t = tinfo BY <1>1, <2>1, <3>1 DEF Cancelling
    <3>2. CASE tinfo = 0 BY <1>1, <3>2 DEF Cancelling
    <3>3. CASE tinfo \in Handles \ {t}
      <4>1. place'[tinfo] = place[tinfo] BY <2>1, <3>3
      <4> QED BY <1>1, <4>1 DEF Cancelling
    <3> QED BY <3>1, <3>2, <3>3 DEF TypeOK
  <2> QED BY <1>1, <2>1, <2>2, <2>3 DEF Motor!vars, ShownSwitch
<1> QED BY <1>2, <1>3 DEF Failing

LEMMA CleanupMotor == ASSUME ConnectionInv, NEW t \in Handles, Cleanup(t)
                      PROVE  [Motor!Next]_Motor!vars
<1> USE DEF ConnectionInv
<1>1. gtk = "join" /\ t = tinfo /\ t = created /\ t # 0 /\ t \notin joined
  BY DEF Cleanup, CancelActs, CancelPoints, SendStop, ClosePort, FreePort, Transition, TypeOK,
         DriverIsHeld, HeldHasPort, Held
<1>2. UNCHANGED <<tinfo, created, joined, gtk>>
  BY DEF Cleanup, CancelActs, SendStop, ClosePort, FreePort, threadVars
<1>3. place'[t] \in InCleanup \cup {"cancelled"}
  BY DEF Cleanup, CancelActs, FirstOfCleanup, SendStop, ClosePort, FreePort, Transition, TypeOK
<1>4. ThreadSeen' = "none" /\ ShownSwitch' = FALSE
  BY <1>1, <1>2, <1>3 DEF ThreadSeen, ShownSwitch, Cancelling
<1>5. CASE CancelActs(t)
  <2>1. place[t] \in CancelPoints /\ threadRunning' = FALSE
    BY <1>5 DEF CancelActs, RunningAfterCancel
  <2>2. ShownSwitch = TRUE BY <1>1, <2>1 DEF CancelPoints, ShownSwitch, Cancelling
  <2> QED BY <1>4, <2>1, <2>2 DEF Motor!Next, Motor!Off, Motor!FlagsWhenOff
<1>6. CASE SendStop(t) \/ ClosePort(t) \/ FreePort(t)
  <2>1. place[t] \in InCleanup /\ threadRunning' = threadRunning
    BY <1>6 DEF SendStop, ClosePort, FreePort, Transition
  <2>2. ThreadSeen = "none" /\ ShownSwitch = FALSE
    BY <1>1, <2>1 DEF ThreadSeen, ShownSwitch, Cancelling
  <2> QED BY <1>4, <2>1, <2>2 DEF Motor!vars
<1> QED BY <1>5, <1>6 DEF Cleanup

(* Whatever the calls on the port return and wherever a cancellation acts,   *)
(* the GUI sees the switch, flag and thread change only as Motor says.       *)
THEOREM ConnectionImplementsMotor == Spec => ImplementsMotor
<1>1. Init => Motor!Init BY InitMotor
<1>2. ConnectionInv /\ [Next]_vars => [Motor!Next]_Motor!vars
  <2> SUFFICES ASSUME ConnectionInv, [Next]_vars PROVE [Motor!Next]_Motor!vars
    OBVIOUS
  <2>1. CASE Start BY <2>1, StartMotor
  <2>2. CASE SwitchOff \/ JoinReturns \/ Quit BY <2>2, StopMotor
  <2>3. ASSUME NEW t \in Handles, Serial(t) \/ DialogClosed(t) PROVE [Motor!Next]_Motor!vars
    BY <2>3, LoopMotor, FailingMotor, CleanupMotor DEF Serial
  <2>4. CASE UNCHANGED vars BY <2>4, StutterMotor
  <2> QED BY <2>1, <2>2, <2>3, <2>4 DEF Next, Gtk
<1> QED BY <1>1, <1>2, ConnectionInvariant, PTL DEF Spec, Motor!Spec, ImplementsMotor
================================================================================

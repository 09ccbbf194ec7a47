-------------------------- MODULE LogAndBlockProofs --------------------------
(***************************************************************************)
(* What follows a decision: the firewall enforcer blocks, the signature    *)
(* store and the vector graph store remember.                              *)
(*                                                                         *)
(* The firewall.  Any number of DB workers may call block_ip at once on    *)
(* Linux or Windows: as long as nobody unblocks and the process does not   *)
(* restart, an answer True is the truth.  (Run fw_restart shows why the    *)
(* last premise counts.)  However many workers and operators there are, on *)
(* every platform, no restart forgets a block.  And one worker and one     *)
(* operator at a time keep the set and the rules together (fw_two_workers: *)
(* two workers do not).                                                    *)
(*                                                                         *)
(* The signature store.  With one logging thread an id names one event,    *)
(* and with one exporting thread what an export has written stays on disk, *)
(* unless the last export broke off in the middle of its lines.            *)
(*                                                                         *)
(* The vector graph store.  However many threads there are, a scope stays  *)
(* within its limit; with one thread, which searches for what it inserts   *)
(* or does not, the edges tell what was compared and no search fails,      *)
(* unless a record is joined to rows that a removal has put out of place.  *)
(***************************************************************************)
EXTENDS Firewall, SignatureStore, VectorGraphStore, Integers, SequenceTheorems,
        FiniteSetTheorems, FunctionTheorems, TLAPS

\* A worker that has added the rule, or found it added, has a rule behind it;
\* so has every address in the set and every address granted.
BlockInv ==
    /\ rules \in [Ips -> Nat]
    /\ pc \in [Callers -> {"idle", "add", "track", "log_block", "log_failed_block"}]
    /\ arg \in [Callers -> Ips \cup {NoIp}]
    /\ \A c \in Callers : pc[c] # "idle" => arg[c] \in Ips
    /\ blocked_ips \subseteq Ips /\ granted \subseteq Ips
    /\ \A ip \in blocked_ips \cup granted : rules[ip] > 0
    /\ \A c \in Callers : pc[c] \in {"track", "log_block"} => rules[arg[c]] > 0
    /\ restarts = 0

\* Outside macOS adding a rule takes none away.
LEMMA AddOnlyAdds ==
    ASSUME rules \in [Ips -> Nat], NEW ip \in Ips, Platform # "darwin"
    PROVE  /\ RulesAfterAdd(ip) \in [Ips -> Nat]
           /\ \A i \in Ips : RulesAfterAdd(ip)[i] >= rules[i]
           /\ RulesAfterAdd(ip)[ip] > 0
BY DEF RulesAfterAdd

\* Steps that leave the rules alone or add to them, move one worker on, and
\* keep what they add to the set and to the granted addresses within the rules.
LEMMA BlockInvKept ==
    ASSUME BlockInv, NEW c \in Callers, NEW label,
           label \in {"idle", "add", "track", "log_block", "log_failed_block"},
           pc' = [pc EXCEPT ![c] = label],
           \/ arg' = arg /\ arg[c] \in Ips
           \/ \E ip \in Ips : arg' = [arg EXCEPT ![c] = ip]
           \/ arg' = [arg EXCEPT ![c] = NoIp] /\ label = "idle",
           rules' \in [Ips -> Nat],
           \A i \in Ips : rules'[i] >= rules[i],
           label \in {"track", "log_block"} => arg' = arg /\ rules'[arg[c]] > 0,
           blocked_ips' \subseteq Ips, granted' \subseteq Ips,
           \A ip \in blocked_ips' \cup granted' :
               ip \in blocked_ips \cup granted \/ rules'[ip] > 0,
           restarts' = restarts
    PROVE  BlockInv'
<1>1. pc' \in [Callers -> {"idle", "add", "track", "log_block", "log_failed_block"}]
  BY DEF BlockInv
<1>2. arg' \in [Callers -> Ips \cup {NoIp}]
  BY DEF BlockInv
<1>3. \A d \in Callers : pc'[d] # "idle" => arg'[d] \in Ips
  BY DEF BlockInv
<1>4. \A ip \in blocked_ips' \cup granted' : rules'[ip] > 0
  BY DEF BlockInv
<1>5. \A d \in Callers : pc'[d] \in {"track", "log_block"} => rules'[arg'[d]] > 0
  <2> SUFFICES ASSUME NEW d \in Callers, pc'[d] \in {"track", "log_block"}
               PROVE  rules'[arg'[d]] > 0
    OBVIOUS
  <2>1. CASE d = c
    BY <2>1 DEF BlockInv
  <2>2. CASE d # c
    <3>1. pc'[d] = pc[d] /\ arg'[d] = arg[d]
      BY <2>2 DEF BlockInv
    <3>2. arg[d] \in Ips /\ rules[arg[d]] > 0
      BY <3>1 DEF BlockInv
    <3>3. rules'[arg[d]] \in Nat /\ rules[arg[d]] \in Nat
      BY <3>2 DEF BlockInv
    <3> QED BY <3>1, <3>2, <3>3
  <2> QED BY <2>1, <2>2
<1> QED BY <1>1, <1>2, <1>3, <1>4, <1>5 DEF BlockInv

THEOREM WorkersAreTold ==
    ASSUME Operators = {}, Platform # "darwin", MaxRestarts = 0
    PROVE  Spec => []TrueMeansBlocked
<1>1. Init => BlockInv
  BY DEF Init, BlockInv
<1>2. BlockInv /\ [Next]_vars => BlockInv'
  <2> SUFFICES ASSUME BlockInv, [Next]_vars PROVE BlockInv'
    OBVIOUS
  <2>1. /\ rules \in [Ips -> Nat] /\ restarts = 0
        /\ blocked_ips \subseteq Ips /\ granted \subseteq Ips
        /\ Callers = Blockers
    BY DEF BlockInv, Callers
  <2>r. rules' = rules => rules' \in [Ips -> Nat] /\ \A i \in Ips : rules'[i] >= rules[i]
    BY <2>1
  <2>2. ASSUME NEW c \in Blockers, NEW ip \in Ips, AlreadyBlocked(c, ip) PROVE BlockInv'
    BY <2>1, <2>2 DEF AlreadyBlocked, BlockInv
  <2>3. ASSUME NEW c \in Blockers, NEW ip \in Ips, Block(c, ip) PROVE BlockInv'
    BY <2>1, <2>r, <2>3, BlockInvKept DEF Block, Goto
  <2>4. ASSUME NEW c \in Blockers, Add(c) PROVE BlockInv'
    <3>1. arg[c] \in Ips
      BY <2>1, <2>4 DEF Add, BlockInv
    <3> QED BY <2>1, <2>4, <3>1, AddOnlyAdds, BlockInvKept DEF Add, Goto
  <2>5. ASSUME NEW c \in Blockers, AddFails(c) PROVE BlockInv'
    <3>1. arg[c] \in Ips
      BY <2>1, <2>5 DEF AddFails, BlockInv
    <3> QED BY <2>1, <2>r, <2>5, <3>1, BlockInvKept DEF AddFails, Goto
  <2>6. ASSUME NEW c \in Blockers, ProgramMissing(c) PROVE BlockInv'
    BY <2>1, <2>r, <2>6, BlockInvKept DEF ProgramMissing, Goto, Return
  <2>7. ASSUME NEW c \in Blockers, AddTimesOut(c) PROVE BlockInv'
    <3>1. arg[c] \in Ips
      BY <2>1, <2>7 DEF AddTimesOut, BlockInv
    <3>2. /\ rules' \in [Ips -> Nat]
          /\ \A i \in Ips : rules'[i] >= rules[i]
      BY <2>1, <2>7, <3>1, AddOnlyAdds DEF AddTimesOut
    <3> QED BY <2>1, <2>7, <3>1, <3>2, BlockInvKept DEF AddTimesOut, Goto
  <2>8. ASSUME NEW c \in Blockers, Track(c) PROVE BlockInv'
    <3>1. arg[c] \in Ips /\ rules[arg[c]] > 0
      BY <2>1, <2>8 DEF Track, BlockInv
    <3> QED BY <2>1, <2>r, <2>8, <3>1, BlockInvKept DEF Track, Goto
  <2>9. ASSUME NEW c \in Blockers, LogBlock(c) PROVE BlockInv'
    <3>1. arg[c] \in Ips /\ rules[arg[c]] > 0
      BY <2>1, <2>9 DEF LogBlock, BlockInv
    <3> QED BY <2>1, <2>r, <2>9, <3>1, BlockInvKept DEF LogBlock, Goto, Return
  <2>10. ASSUME NEW c \in Blockers, LogFailedBlock(c) PROVE BlockInv'
    BY <2>1, <2>r, <2>10, BlockInvKept DEF LogFailedBlock, Goto, Return
  <2>11. ASSUME Restart PROVE FALSE
    BY <2>1, <2>11 DEF Restart
  <2>12. CASE UNCHANGED vars
    BY <2>12 DEF vars, BlockInv
  <2> QED
    BY <2>2, <2>3, <2>4, <2>5, <2>6, <2>7, <2>8, <2>9, <2>10, <2>11, <2>12
    DEF Next, BlockStep
<1>3. BlockInv => TrueMeansBlocked
  BY DEF BlockInv, TrueMeansBlocked
<1> QED BY <1>1, <1>2, <1>3, PTL DEF Spec
------------------------------------------------------------------------------
(* Nothing is forgotten.                                                     *)

Labels == {"idle", "add", "track", "log_block", "log_failed_block",
           "delete", "untrack", "log_unblock", "log_failed_unblock"}
Lines == [action : {"block", "unblock"}, ip : Ips, success : BOOLEAN]

\* A caller between its command and its line in the log.
AboutToLog(ip) == \E c \in Callers : arg[c] = ip /\ pc[c] \in {"track", "log_block"}

FileInv ==
    /\ log \in Seq(Lines)
    /\ pc \in [Callers -> Labels]
    /\ arg \in [Callers -> Ips \cup {NoIp}]
    /\ \A c \in Callers : pc[c] # "idle" => arg[c] \in Ips
    /\ rules \in [Ips -> Nat]
    /\ \A ip \in Ips : rules[ip] > 0 => ip \in doubt \/ ip \in LoadedFrom(log) \/ AboutToLog(ip)

\* The log only grows, and so does what is loaded from it.
LEMMA LogGrows ==
    ASSUME NEW lines \in Seq(Lines), NEW e \in Lines
    PROVE  /\ Append(lines, e) \in Seq(Lines)
           /\ LoadedFrom(lines) \subseteq LoadedFrom(Append(lines, e))
           /\ e.action = "block" => e.ip \in LoadedFrom(Append(lines, e))
<1>1. /\ Append(lines, e) \in Seq(Lines) /\ Len(lines) \in Nat
      /\ Len(Append(lines, e)) = Len(lines) + 1 /\ Append(lines, e)[Len(lines) + 1] = e
      /\ \A i \in 1..Len(lines) : Append(lines, e)[i] = lines[i]
  BY AppendProperties, LenProperties
<1>2. ASSUME NEW i \in 1..Len(lines), lines[i].action = "block"
      PROVE  lines[i].ip \in LoadedFrom(Append(lines, e))
  <2>1. i \in 1..Len(Append(lines, e)) /\ Append(lines, e)[i] = lines[i]
    BY <1>1
  <2> QED BY <1>2, <2>1 DEF LoadedFrom
<1>3. LoadedFrom(lines) \subseteq LoadedFrom(Append(lines, e))
  BY <1>2 DEF LoadedFrom
<1>4. ASSUME e.action = "block" PROVE e.ip \in LoadedFrom(Append(lines, e))
  <2>1. Len(lines) + 1 \in 1..Len(Append(lines, e))
    BY <1>1
  <2> QED BY <1>1, <1>4, <2>1 DEF LoadedFrom
<1> QED BY <1>1, <1>3, <1>4

LEMMA LoadedAreIps == ASSUME NEW lines \in Seq(Lines) PROVE LoadedFrom(lines) \subseteq Ips
<1>1. \A i \in 1..Len(lines) : lines[i] \in Lines
  BY ElementOfSeq
<1> QED BY <1>1 DEF LoadedFrom, Lines

\* No command makes a rule for an address but the one it is run for.
LEMMA CommandsAddOne ==
    ASSUME rules \in [Ips -> Nat], NEW ip \in Ips
    PROVE  /\ RulesAfterAdd(ip) \in [Ips -> Nat]
           /\ \A i \in Ips : RulesAfterAdd(ip)[i] > 0 => i = ip \/ rules[i] > 0
           /\ DeleteFinds(ip) =>
                /\ RulesAfterDelete(ip) \in [Ips -> Nat]
                /\ \A i \in Ips : RulesAfterDelete(ip)[i] > 0 => rules[i] > 0
<1>1. CASE Platform = "linux"
  BY <1>1 DEF RulesAfterAdd, RulesAfterDelete, DeleteFinds
<1>2. CASE Platform = "win32"
  BY <1>2 DEF RulesAfterAdd, RulesAfterDelete, DeleteFinds
<1>3. CASE Platform = "darwin"
  BY <1>3 DEF RulesAfterAdd, RulesAfterDelete, DeleteFinds
<1> QED BY <1>1, <1>2, <1>3, FirewallAssumption DEF FirewallAssumption

\* One caller moves on.  Whatever gets a rule is in doubt or about to be logged; a
\* caller that was about to log has logged, or its address is in doubt.
LEMMA FileInvKept ==
    ASSUME FileInv, NEW c \in Callers, NEW label \in Labels, NEW ip \in Ips \cup {NoIp},
           pc' = [pc EXCEPT ![c] = label], arg' = [arg EXCEPT ![c] = ip],
           label # "idle" => ip \in Ips,
           rules' \in [Ips -> Nat], log' \in Seq(Lines),
           LoadedFrom(log) \subseteq LoadedFrom(log'), doubt \subseteq doubt',
           \A i \in Ips : rules'[i] > 0 =>
               rules[i] > 0 \/ i \in doubt' \/ (i = ip /\ label = "track"),
           pc[c] \in {"track", "log_block"} =>
               \/ ip = arg[c] /\ label \in {"track", "log_block"}
               \/ arg[c] \in doubt' \cup LoadedFrom(log')
    PROVE  FileInv'
<1>1. pc \in [Callers -> Labels] /\ arg \in [Callers -> Ips \cup {NoIp}]
  BY DEF FileInv
<1>2. /\ pc' \in [Callers -> Labels] /\ arg' \in [Callers -> Ips \cup {NoIp}]
      /\ pc'[c] = label /\ arg'[c] = ip
      /\ \A d \in Callers : d # c => pc'[d] = pc[d] /\ arg'[d] = arg[d]
  BY <1>1
<1>3. \A d \in Callers : pc'[d] # "idle" => arg'[d] \in Ips
  BY <1>2 DEF FileInv
<1>4. ASSUME NEW i \in Ips, rules'[i] > 0
      PROVE  \/ i \in doubt' \/ i \in LoadedFrom(log')
             \/ \E d \in Callers : arg'[d] = i /\ pc'[d] \in {"track", "log_block"}
  <2>1. CASE i = ip /\ label = "track"
    BY <1>2, <2>1
  <2>2. CASE rules[i] > 0
    <3>1. CASE i \in doubt \/ i \in LoadedFrom(log)
      BY <3>1
    <3>2. CASE AboutToLog(i)
      <4>1. PICK d \in Callers : arg[d] = i /\ pc[d] \in {"track", "log_block"}
        BY <3>2 DEF AboutToLog
      <4>2. CASE d = c
        BY <1>2, <4>1, <4>2
      <4>3. CASE d # c
        BY <1>2, <4>1, <4>3
      <4> QED BY <4>2, <4>3
    <3> QED BY <2>2, <3>1, <3>2 DEF FileInv
  <2> QED BY <1>4, <2>1, <2>2
<1> QED BY <1>2, <1>3, <1>4 DEF FileInv, AboutToLog, LoadedFrom

LEMMA BlockStepKeepsFile == ASSUME FileInv, NEW c \in Blockers, BlockStep(c) PROVE FileInv'
<1>1. /\ c \in Callers /\ rules \in [Ips -> Nat] /\ log \in Seq(Lines)
      /\ pc \in [Callers -> Labels] /\ arg \in [Callers -> Ips \cup {NoIp}]
      /\ arg[c] \in Ips \cup {NoIp} /\ (pc[c] # "idle" => arg[c] \in Ips)
      /\ arg = [arg EXCEPT ![c] = arg[c]]
  BY DEF FileInv, Callers
<1>2. ASSUME NEW ip \in Ips, AlreadyBlocked(c, ip) PROVE FileInv'
  BY <1>2 DEF AlreadyBlocked, FileInv, AboutToLog
<1>3. ASSUME NEW ip \in Ips, Block(c, ip) PROVE FileInv'
  <2>1. /\ pc[c] = "idle" /\ pc' = [pc EXCEPT ![c] = "add"] /\ arg' = [arg EXCEPT ![c] = ip]
        /\ UNCHANGED <<rules, log, doubt>> /\ "add" \in Labels
    BY <1>3 DEF Block, Goto, Labels
  <2> QED BY <1>1, <2>1, FileInvKept
<1>4. CASE Add(c)
  <2>1. /\ pc[c] = "add" /\ pc' = [pc EXCEPT ![c] = "track"] /\ arg' = [arg EXCEPT ![c] = arg[c]]
        /\ UNCHANGED <<log, doubt>> /\ "track" \in Labels /\ rules' = RulesAfterAdd(arg[c])
    BY <1>1, <1>4 DEF Add, Goto, Labels
  <2>2. /\ rules' \in [Ips -> Nat]
        /\ \A i \in Ips : rules'[i] > 0 => i = arg[c] \/ rules[i] > 0
    BY <1>1, <2>1, CommandsAddOne
  <2> QED BY <1>1, <2>1, <2>2, FileInvKept
<1>5. CASE AddFails(c)
  <2>1. /\ pc[c] = "add" /\ pc' = [pc EXCEPT ![c] = "log_failed_block"]
        /\ arg' = [arg EXCEPT ![c] = arg[c]]
        /\ UNCHANGED <<rules, log, doubt>> /\ "log_failed_block" \in Labels
    BY <1>1, <1>5 DEF AddFails, Goto, Labels
  <2> QED BY <1>1, <2>1, FileInvKept
<1>6. CASE ProgramMissing(c)
  <2>1. /\ pc[c] = "add" /\ pc' = [pc EXCEPT ![c] = "idle"] /\ arg' = [arg EXCEPT ![c] = NoIp]
        /\ UNCHANGED <<rules, log, doubt>> /\ "idle" \in Labels
    BY <1>6 DEF ProgramMissing, Goto, Return, Labels
  <2> QED BY <1>1, <2>1, FileInvKept
<1>7. CASE AddTimesOut(c)
  <2>1. /\ pc[c] = "add" /\ pc' = [pc EXCEPT ![c] = "log_failed_block"]
        /\ arg' = [arg EXCEPT ![c] = arg[c]] /\ log' = log /\ doubt' = doubt \cup {arg[c]}
        /\ rules' = rules \/ rules' = RulesAfterAdd(arg[c])
        /\ "log_failed_block" \in Labels
    BY <1>1, <1>7 DEF AddTimesOut, Goto, Labels
  <2>2. /\ rules' \in [Ips -> Nat]
        /\ \A i \in Ips : rules'[i] > 0 => i = arg[c] \/ rules[i] > 0
    BY <1>1, <2>1, CommandsAddOne
  <2> QED BY <1>1, <2>1, <2>2, FileInvKept
<1>8. CASE Track(c)
  <2>1. /\ pc[c] = "track" /\ pc' = [pc EXCEPT ![c] = "log_block"]
        /\ arg' = [arg EXCEPT ![c] = arg[c]]
        /\ UNCHANGED <<rules, log, doubt>> /\ "log_block" \in Labels
    BY <1>1, <1>8 DEF Track, Goto, Labels
  <2> QED BY <1>1, <2>1, FileInvKept
<1>9. CASE LogBlock(c) \/ LogFailedBlock(c)
  <2>1. PICK ok \in BOOLEAN : LogAction(Entry("block", arg[c], ok), arg[c])
    BY <1>9 DEF LogBlock, LogFailedBlock
  <2>2. PICK e \in Lines : e = Entry("block", arg[c], ok) /\ e.action = "block" /\ e.ip = arg[c]
    <3>1. Entry("block", arg[c], ok) \in Lines
      BY <1>1, <1>9 DEF LogBlock, LogFailedBlock, Entry, Lines
    <3> QED BY <3>1 DEF Entry
  <2>3. /\ pc' = [pc EXCEPT ![c] = "idle"] /\ arg' = [arg EXCEPT ![c] = NoIp]
        /\ rules' = rules /\ "idle" \in Labels
    BY <1>9 DEF LogBlock, LogFailedBlock, Return, Goto, Labels
  <2>4. CASE log' = Append(log, e) /\ doubt' = doubt
    <3>1. /\ log' \in Seq(Lines) /\ LoadedFrom(log) \subseteq LoadedFrom(log')
          /\ arg[c] \in LoadedFrom(log')
      BY <1>1, <2>2, <2>4, LogGrows
    <3> QED BY <1>1, <2>3, <2>4, <3>1, FileInvKept
  <2>5. CASE doubt' = doubt \cup {arg[c]} /\ log' = log
    BY <1>1, <2>3, <2>5, FileInvKept
  <2> QED BY <2>1, <2>2, <2>4, <2>5 DEF LogAction
<1> QED BY <1>2, <1>3, <1>4, <1>5, <1>6, <1>7, <1>8, <1>9 DEF BlockStep

LEMMA UnblockStepKeepsFile ==
    ASSUME FileInv, NEW c \in Operators, UnblockStep(c) PROVE FileInv'
<1>1. /\ c \in Callers /\ rules \in [Ips -> Nat] /\ log \in Seq(Lines)
      /\ pc \in [Callers -> Labels] /\ arg \in [Callers -> Ips \cup {NoIp}]
      /\ arg[c] \in Ips \cup {NoIp} /\ (pc[c] # "idle" => arg[c] \in Ips)
      /\ arg = [arg EXCEPT ![c] = arg[c]]
  BY DEF FileInv, Callers
<1>2. CASE Request(c) \/ \E ip \in Ips : NotBlocked(c, ip)
  BY <1>2 DEF Request, NotBlocked, FileInv, AboutToLog
<1>3. ASSUME NEW ip \in Ips, Unblock(c, ip) PROVE FileInv'
  <2>1. /\ pc[c] = "idle" /\ pc' = [pc EXCEPT ![c] = "delete"] /\ arg' = [arg EXCEPT ![c] = ip]
        /\ UNCHANGED <<rules, log, doubt>> /\ "delete" \in Labels
    BY <1>3 DEF Unblock, Goto, Labels
  <2> QED BY <1>1, <2>1, FileInvKept
<1>4. CASE Delete(c)
  <2>1. /\ pc[c] = "delete" /\ pc' = [pc EXCEPT ![c] = "untrack"]
        /\ arg' = [arg EXCEPT ![c] = arg[c]]
        /\ UNCHANGED <<log, doubt>> /\ "untrack" \in Labels
        /\ rules' = RulesAfterDelete(arg[c]) /\ DeleteFinds(arg[c])
    BY <1>1, <1>4 DEF Delete, Goto, Labels
  <2>2. rules' \in [Ips -> Nat] /\ \A i \in Ips : rules'[i] > 0 => rules[i] > 0
    BY <1>1, <2>1, CommandsAddOne
  <2> QED BY <1>1, <2>1, <2>2, FileInvKept
<1>5. CASE DeleteFails(c)
  <2>1. /\ pc[c] = "delete" /\ pc' = [pc EXCEPT ![c] = "log_failed_unblock"]
        /\ arg' = [arg EXCEPT ![c] = arg[c]]
        /\ UNCHANGED <<rules, log, doubt>> /\ "log_failed_unblock" \in Labels
    BY <1>1, <1>5 DEF DeleteFails, Goto, Labels
  <2> QED BY <1>1, <2>1, FileInvKept
<1>6. CASE DeleteTimesOut(c)
  <2>1. /\ pc[c] = "delete" /\ pc' = [pc EXCEPT ![c] = "log_failed_unblock"]
        /\ arg' = [arg EXCEPT ![c] = arg[c]] /\ log' = log /\ doubt \subseteq doubt'
        /\ \/ rules' = rules
           \/ rules' = RulesAfterDelete(arg[c]) /\ DeleteFinds(arg[c])
        /\ "log_failed_unblock" \in Labels
    BY <1>1, <1>6 DEF DeleteTimesOut, Goto, Labels
  <2>2. rules' \in [Ips -> Nat] /\ \A i \in Ips : rules'[i] > 0 => rules[i] > 0
    BY <1>1, <2>1, CommandsAddOne
  <2> QED BY <1>1, <2>1, <2>2, FileInvKept
<1>7. CASE Untrack(c)
  <2>1. /\ pc[c] = "untrack" /\ pc' = [pc EXCEPT ![c] = "log_unblock"]
        /\ arg' = [arg EXCEPT ![c] = arg[c]]
        /\ UNCHANGED <<rules, log, doubt>> /\ "log_unblock" \in Labels
    BY <1>1, <1>7 DEF Untrack, Goto, Labels
  <2> QED BY <1>1, <2>1, FileInvKept
<1>8. CASE LogUnblock(c)
  <2>1. PICK e \in Lines : LogAction(e, arg[c])
    <3>1. Entry("unblock", arg[c], pc[c] = "log_unblock") \in Lines
      BY <1>1, <1>8 DEF LogUnblock, Entry, Lines
    <3> QED BY <1>8, <3>1 DEF LogUnblock
  <2>2. /\ pc' = [pc EXCEPT ![c] = "idle"] /\ arg' = [arg EXCEPT ![c] = NoIp]
        /\ rules' = rules /\ "idle" \in Labels /\ pc[c] \notin {"track", "log_block"}
    BY <1>8 DEF LogUnblock, Return, Goto, Labels
  <2>3. doubt \subseteq doubt' /\ log' \in Seq(Lines) /\ LoadedFrom(log) \subseteq LoadedFrom(log')
    BY <1>1, <2>1, LogGrows DEF LogAction
  <2> QED BY <1>1, <2>2, <2>3, FileInvKept
<1> QED BY <1>2, <1>3, <1>4, <1>5, <1>6, <1>7, <1>8 DEF UnblockStep

\* A restart puts in doubt what it cuts off, and keeps rules and log.
LEMMA RestartKeepsFile == ASSUME FileInv, Restart PROVE FileInv'
<1>1. /\ log \in Seq(Lines) /\ rules \in [Ips -> Nat] /\ UNCHANGED <<rules, log>>
      /\ pc' = [c \in Callers |-> "idle"] /\ arg' = [c \in Callers |-> NoIp]
      /\ doubt' = doubt \cup {arg[c] : c \in {c \in Callers : pc[c] # "idle"}}
  BY DEF Restart, FileInv
<1>2. pc' \in [Callers -> Labels] /\ arg' \in [Callers -> Ips \cup {NoIp}]
  BY <1>1 DEF Labels
<1>3. \A ip \in Ips : AboutToLog(ip) => ip \in doubt'
  BY <1>1 DEF AboutToLog
<1>4. \A ip \in Ips : rules'[ip] > 0 => ip \in doubt' \/ ip \in LoadedFrom(log')
  BY <1>1, <1>3 DEF FileInv
<1> QED BY <1>1, <1>2, <1>4 DEF FileInv, LoadedFrom

LEMMA FileInitial == Init => FileInv
<1> SUFFICES ASSUME Init PROVE FileInv
  OBVIOUS
<1>1. log \in Seq(Lines)
  BY EmptySeq DEF Init
<1> QED BY <1>1 DEF Init, FileInv, Labels

LEMMA FileInductive == FileInv /\ [Next]_vars => FileInv'
<1>1. FileInv /\ UNCHANGED vars => FileInv'
  BY DEF FileInv, AboutToLog, LoadedFrom, vars
<1> QED BY <1>1, BlockStepKeepsFile, UnblockStepKeepsFile, RestartKeepsFile DEF Next

\* Whatever fails or times out, however often the process restarts, and however many
\* workers and operators are at it at once: an address that has a rule is loaded
\* from the log again (firewall_enforcer.py:40-53), unless one of the calls for it is
\* under way or was cut off.
THEOREM NoRuleIsForgotten == Spec => []NothingForgotten
<1>1. FileInv => NothingForgotten
  BY DEF FileInv, AboutToLog, NothingForgotten, Settled
<1> QED BY <1>1, FileInitial, FileInductive, PTL DEF Spec
------------------------------------------------------------------------------
(* The set and the system agree, with one worker and one operator.           *)

OneAtATime == /\ \A c, d \in Blockers : c = d
              /\ \A c, d \in Operators : c = d
              /\ Platform # "darwin"

Working(here, ip) == \E c \in Callers : arg[c] = ip /\ pc[c] \in here

\* One rule at most; it is there if the address is in the set, unless a caller
\* stands between the command and the set.  Both need not be so for an address in
\* doubt, and after a restart the set may hold addresses without a rule.
InStep(ip) ==
    /\ rules[ip] \in {0, 1}
    /\ rules[ip] = 1 => ip \in blocked_ips \/ Working({"track"}, ip)
    /\ restarts = 0 /\ ip \in blocked_ips => rules[ip] = 1 \/ Working({"untrack"}, ip)
    /\ Working({"add", "track"}, ip) => ip \notin blocked_ips
    /\ Working({"track"}, ip) => rules[ip] = 1
    /\ Working({"delete", "untrack"}, ip) => ip \in blocked_ips
    /\ Working({"untrack"}, ip) => rules[ip] = 0

AgreeInv ==
    /\ FileInv
    /\ restarts \in Nat /\ blocked_ips \subseteq Ips
    /\ \A c \in Blockers : pc[c] \in {"idle", "add", "track", "log_block", "log_failed_block"}
    /\ \A c \in Operators : pc[c] \in {"idle", "delete", "untrack", "log_unblock",
                                       "log_failed_unblock"}
    /\ \A ip \in Ips \ doubt : InStep(ip)

\* One caller moves on, at work on one address before and after; whatever is not its
\* address stays as it was.
Moves(c, from, to, ip) ==
    /\ pc[c] = from /\ (from # "idle" => arg[c] = ip)
    /\ pc' = [pc EXCEPT ![c] = to]
    /\ IF to = "idle" THEN arg' = [arg EXCEPT ![c] = NoIp] ELSE arg' = [arg EXCEPT ![c] = ip]
    /\ \A i \in Ips : i # ip => rules'[i] = rules[i] /\ (i \in blocked_ips' <=> i \in blocked_ips)
    /\ blocked_ips' \subseteq blocked_ips \cup {ip}
    /\ doubt \subseteq doubt' /\ restarts' = restarts

\* What c itself is at is told by from and to; the others go on as before.
Others(c, here, ip) == \E d \in Callers \ {c} : arg[d] = ip /\ pc[d] \in here

LEMMA WorkingNow ==
    ASSUME pc \in [Callers -> Labels], arg \in [Callers -> Ips \cup {NoIp}],
           NEW c \in Callers, NEW from, NEW to, NEW ip \in Ips, Moves(c, from, to, ip),
           NEW here, "idle" \notin here
    PROVE  /\ Working(here, ip) <=> from \in here \/ Others(c, here, ip)
           /\ Working(here, ip)' <=> to \in here \/ Others(c, here, ip)
           /\ \A i \in Ips \ {ip} : Working(here, i)' <=> Working(here, i)
<1>1. /\ pc'[c] = to /\ (to # "idle" => arg'[c] = ip)
      /\ \A d \in Callers \ {c} : pc'[d] = pc[d] /\ arg'[d] = arg[d]
      /\ pc[c] = from /\ (from # "idle" => arg[c] = ip)
  BY DEF Moves
<1> QED BY <1>1 DEF Working, Others

LEMMA OthersAre ==
    ASSUME AgreeInv, OneAtATime, NEW ip
    PROVE  /\ \A c \in Blockers :
                ~Others(c, {"track"}, ip) /\ ~Others(c, {"add", "track"}, ip)
           /\ \A c \in Operators :
                ~Others(c, {"untrack"}, ip) /\ ~Others(c, {"delete", "untrack"}, ip)
BY DEF AgreeInv, OneAtATime, Others, Callers

LEMMA MovesKeep ==
    ASSUME AgreeInv, FileInv', OneAtATime, NEW c \in Callers, NEW from, NEW to, NEW ip \in Ips,
           Moves(c, from, to, ip),
           c \in Blockers => to \in {"idle", "add", "track", "log_block", "log_failed_block"},
           c \in Operators => to \in {"idle", "delete", "untrack", "log_unblock",
                                      "log_failed_unblock"},
           ip \notin doubt' /\ InStep(ip) => InStep(ip)'
    PROVE  AgreeInv'
<1>1. pc \in [Callers -> Labels] /\ arg \in [Callers -> Ips \cup {NoIp}]
  BY DEF AgreeInv, FileInv
<1>2. ASSUME NEW i \in Ips, i \notin doubt' PROVE InStep(i)'
  <2>1. i \notin doubt /\ InStep(i)
    BY <1>2 DEF AgreeInv, Moves
  <2>2. CASE i = ip
    BY <1>2, <2>1, <2>2
  <2>3. CASE i # ip
    <3>1. /\ Working({"track"}, i)' <=> Working({"track"}, i)
          /\ Working({"untrack"}, i)' <=> Working({"untrack"}, i)
          /\ Working({"add", "track"}, i)' <=> Working({"add", "track"}, i)
          /\ Working({"delete", "untrack"}, i)' <=> Working({"delete", "untrack"}, i)
      BY <1>1, <2>3, WorkingNow
    <3>2. rules'[i] = rules[i] /\ (i \in blocked_ips' <=> i \in blocked_ips) /\ restarts' = restarts
      BY <2>3 DEF Moves
    <3> QED BY <2>1, <3>1, <3>2 DEF InStep
  <2> QED BY <2>2, <2>3
<1>3. \A d \in Callers : pc'[d] = IF d = c THEN to ELSE pc[d]
  BY <1>1 DEF Moves
<1>4. /\ \A d \in Blockers : pc'[d] \in {"idle", "add", "track", "log_block", "log_failed_block"}
      /\ \A d \in Operators : pc'[d] \in {"idle", "delete", "untrack", "log_unblock",
                                          "log_failed_unblock"}
  BY <1>3 DEF AgreeInv, Callers
<1>5. restarts' \in Nat /\ blocked_ips' \subseteq Ips
  BY DEF AgreeInv, Moves
<1> QED BY <1>2, <1>4, <1>5 DEF AgreeInv

\* Steps of the worker.
LEMMA BlockStepAgrees ==
    ASSUME AgreeInv, FileInv', OneAtATime, NEW c \in Blockers, BlockStep(c) PROVE AgreeInv'
<1>1. /\ c \in Callers /\ c \notin Operators /\ rules \in [Ips -> Nat]
      /\ pc \in [Callers -> Labels] /\ arg \in [Callers -> Ips \cup {NoIp}]
  BY FirewallAssumption DEF AgreeInv, FileInv, Callers, FirewallAssumption
<1>2. ASSUME NEW from, NEW to, NEW ip \in Ips, Moves(c, from, to, ip)
      PROVE  /\ Working({"track"}, ip) <=> from = "track"
             /\ Working({"track"}, ip)' <=> to = "track"
             /\ Working({"add", "track"}, ip) <=> from \in {"add", "track"}
             /\ Working({"add", "track"}, ip)' <=> to \in {"add", "track"}
             /\ Working({"untrack"}, ip) <=> from = "untrack" \/ Others(c, {"untrack"}, ip)
             /\ Working({"untrack"}, ip)' <=> to = "untrack" \/ Others(c, {"untrack"}, ip)
             /\ Working({"delete", "untrack"}, ip) <=>
                    from \in {"delete", "untrack"} \/ Others(c, {"delete", "untrack"}, ip)
             /\ Working({"delete", "untrack"}, ip)' <=>
                    to \in {"delete", "untrack"} \/ Others(c, {"delete", "untrack"}, ip)
             /\ Others(c, {"untrack"}, ip) => Others(c, {"delete", "untrack"}, ip)
  <2>1. ~Others(c, {"track"}, ip) /\ ~Others(c, {"add", "track"}, ip)
    BY OthersAre
  <2>2. Others(c, {"untrack"}, ip) => Others(c, {"delete", "untrack"}, ip)
    BY DEF Others
  <2> QED BY <1>1, <1>2, <2>1, <2>2, WorkingNow
<1>3. ASSUME NEW ip \in Ips, AlreadyBlocked(c, ip) PROVE AgreeInv'
  BY <1>3 DEF AlreadyBlocked, AgreeInv, InStep, Working
<1>4. ASSUME NEW ip \in Ips, Block(c, ip) PROVE AgreeInv'
  <2>1. /\ Moves(c, "idle", "add", ip) /\ ip \notin blocked_ips
        /\ UNCHANGED <<rules, blocked_ips, restarts>>
    BY <1>4 DEF Block, Goto, Moves
  <2>2. InStep(ip) => InStep(ip)'
    BY <1>2, <2>1 DEF InStep
  <2> QED BY <1>1, <2>1, <2>2, MovesKeep
<1> SUFFICES ASSUME pc[c] # "idle" PROVE AgreeInv'
  BY <1>3, <1>4 DEF BlockStep, Add, AddFails, ProgramMissing, AddTimesOut, Track, LogBlock,
                    LogFailedBlock
<1>5. PICK ip \in Ips : ip = arg[c]
  BY <1>1 DEF AgreeInv, FileInv
<1>6. arg = [arg EXCEPT ![c] = ip]
  BY <1>1, <1>5
<1>7. CASE Add(c)
  <2>1. /\ Moves(c, "add", "track", ip) /\ rules' = [rules EXCEPT ![ip] = @ + 1]
        /\ UNCHANGED <<blocked_ips, restarts>>
    BY <1>1, <1>5, <1>6, <1>7 DEF Add, Goto, Moves, RulesAfterAdd, OneAtATime
  <2>2. rules[ip] = 0 => rules'[ip] = 1
    BY <1>1, <2>1
  <2>3. InStep(ip) => InStep(ip)'
    BY <1>2, <2>1, <2>2 DEF InStep
  <2> QED BY <1>1, <2>1, <2>3, MovesKeep
<1>8. CASE AddFails(c)
  <2>1. Moves(c, "add", "log_failed_block", ip) /\ UNCHANGED <<rules, blocked_ips, restarts>>
    BY <1>5, <1>6, <1>8 DEF AddFails, Goto, Moves
  <2>2. InStep(ip) => InStep(ip)'
    BY <1>2, <2>1 DEF InStep
  <2> QED BY <1>1, <2>1, <2>2, MovesKeep
<1>9. CASE ProgramMissing(c)
  <2>1. Moves(c, "add", "idle", ip) /\ UNCHANGED <<rules, blocked_ips, restarts>>
    BY <1>5, <1>9 DEF ProgramMissing, Goto, Return, Moves
  <2>2. InStep(ip) => InStep(ip)'
    BY <1>2, <2>1 DEF InStep
  <2> QED BY <1>1, <2>1, <2>2, MovesKeep
<1>10. CASE AddTimesOut(c)
  <2>1. Moves(c, "add", "log_failed_block", ip) /\ ip \in doubt' /\ UNCHANGED blocked_ips
    BY <1>1, <1>5, <1>6, <1>10 DEF AddTimesOut, Goto, Moves, RulesAfterAdd, OneAtATime
  <2> QED BY <1>1, <2>1, MovesKeep
<1>11. CASE Track(c)
  <2>1. /\ Moves(c, "track", "log_block", ip) /\ blocked_ips' = blocked_ips \cup {ip}
        /\ UNCHANGED <<rules, restarts>>
    BY <1>5, <1>6, <1>11 DEF Track, Goto, Moves
  <2>2. InStep(ip) => InStep(ip)'
    BY <1>2, <2>1 DEF InStep
  <2> QED BY <1>1, <2>1, <2>2, MovesKeep
<1>12. CASE LogBlock(c) \/ LogFailedBlock(c)
  <2>1. PICK from \in {"log_block", "log_failed_block"} :
          Moves(c, from, "idle", ip) /\ UNCHANGED <<rules, blocked_ips, restarts>>
    BY <1>5, <1>12 DEF LogBlock, LogFailedBlock, LogAction, Goto, Return, Moves
  <2>2. InStep(ip) => InStep(ip)'
    BY <1>2, <2>1 DEF InStep
  <2> QED BY <1>1, <2>1, <2>2, MovesKeep
<1> QED BY <1>3, <1>4, <1>7, <1>8, <1>9, <1>10, <1>11, <1>12 DEF BlockStep

\* Steps of the operator.
LEMMA UnblockStepAgrees ==
    ASSUME AgreeInv, FileInv', OneAtATime, NEW c \in Operators, UnblockStep(c) PROVE AgreeInv'
<1>1. /\ c \in Callers /\ c \notin Blockers /\ rules \in [Ips -> Nat]
      /\ pc \in [Callers -> Labels] /\ arg \in [Callers -> Ips \cup {NoIp}]
  BY FirewallAssumption DEF AgreeInv, FileInv, Callers, FirewallAssumption
<1>2. ASSUME NEW from, NEW to, NEW ip \in Ips, Moves(c, from, to, ip)
      PROVE  /\ Working({"track"}, ip) <=> from = "track" \/ Others(c, {"track"}, ip)
             /\ Working({"track"}, ip)' <=> to = "track" \/ Others(c, {"track"}, ip)
             /\ Working({"add", "track"}, ip) <=>
                    from \in {"add", "track"} \/ Others(c, {"add", "track"}, ip)
             /\ Working({"add", "track"}, ip)' <=>
                    to \in {"add", "track"} \/ Others(c, {"add", "track"}, ip)
             /\ Working({"untrack"}, ip) <=> from = "untrack"
             /\ Working({"untrack"}, ip)' <=> to = "untrack"
             /\ Working({"delete", "untrack"}, ip) <=> from \in {"delete", "untrack"}
             /\ Working({"delete", "untrack"}, ip)' <=> to \in {"delete", "untrack"}
             /\ Others(c, {"track"}, ip) => Others(c, {"add", "track"}, ip)
  <2>1. ~Others(c, {"untrack"}, ip) /\ ~Others(c, {"delete", "untrack"}, ip)
    BY OthersAre
  <2>2. Others(c, {"track"}, ip) => Others(c, {"add", "track"}, ip)
    BY DEF Others
  <2> QED BY <1>1, <1>2, <2>1, <2>2, WorkingNow
<1>3. CASE Request(c) \/ \E ip \in Ips : NotBlocked(c, ip)
  BY <1>3 DEF Request, NotBlocked, AgreeInv, InStep, Working
<1>4. ASSUME NEW ip \in Ips, Unblock(c, ip) PROVE AgreeInv'
  <2>1. /\ Moves(c, "idle", "delete", ip) /\ ip \in blocked_ips
        /\ UNCHANGED <<rules, blocked_ips, restarts>>
    BY <1>4 DEF Unblock, Goto, Moves
  <2>2. InStep(ip) => InStep(ip)'
    BY <1>2, <2>1 DEF InStep
  <2> QED BY <1>1, <2>1, <2>2, MovesKeep
<1> SUFFICES ASSUME pc[c] # "idle" PROVE AgreeInv'
  BY <1>3, <1>4 DEF UnblockStep, Delete, DeleteFails, DeleteTimesOut, Untrack, LogUnblock
<1>5. PICK ip \in Ips : ip = arg[c]
  BY <1>1 DEF AgreeInv, FileInv
<1>6. arg = [arg EXCEPT ![c] = ip]
  BY <1>1, <1>5
<1>7. /\ \A i \in Ips : i # ip => RulesAfterDelete(ip)[i] = rules[i]
      /\ rules[ip] = 1 => RulesAfterDelete(ip)[ip] = 0
      /\ DeleteFinds(ip) => rules[ip] > 0
  <2>1. CASE Platform = "linux"
    BY <1>1, <2>1 DEF RulesAfterDelete, DeleteFinds
  <2>2. CASE Platform = "win32"
    BY <1>1, <2>2 DEF RulesAfterDelete, DeleteFinds
  <2> QED BY <2>1, <2>2, FirewallAssumption DEF FirewallAssumption, OneAtATime
<1>8. CASE Delete(c)
  <2>1. /\ Moves(c, "delete", "untrack", ip) /\ rules' = RulesAfterDelete(ip)
        /\ DeleteFinds(ip) /\ UNCHANGED <<blocked_ips, restarts>>
    BY <1>5, <1>6, <1>7, <1>8 DEF Delete, Goto, Moves
  <2>2. InStep(ip) => InStep(ip)'
    BY <1>2, <1>7, <2>1 DEF InStep
  <2> QED BY <1>1, <2>1, <2>2, MovesKeep
<1>9. CASE DeleteFails(c)
  <2>1. /\ Moves(c, "delete", "log_failed_unblock", ip)
        /\ UNCHANGED <<rules, blocked_ips, restarts>>
    BY <1>5, <1>6, <1>9 DEF DeleteFails, Goto, Moves
  <2>2. InStep(ip) => InStep(ip)'
    BY <1>2, <2>1 DEF InStep
  <2> QED BY <1>1, <2>1, <2>2, MovesKeep
<1>10. CASE DeleteTimesOut(c)
  <2>1. rules' = rules \/ rules' = RulesAfterDelete(ip)
    BY <1>5, <1>10 DEF DeleteTimesOut
  <2>2. Moves(c, "delete", "log_failed_unblock", ip) /\ ip \in doubt'
    BY <1>5, <1>6, <1>7, <1>10, <2>1 DEF DeleteTimesOut, Goto, Moves
  <2> QED BY <1>1, <2>2, MovesKeep
<1>11. CASE Untrack(c)
  <2>1. /\ Moves(c, "untrack", "log_unblock", ip) /\ blocked_ips' = blocked_ips \ {ip}
        /\ UNCHANGED <<rules, restarts>>
    BY <1>5, <1>6, <1>11 DEF Untrack, Goto, Moves
  <2>2. InStep(ip) => InStep(ip)'
    BY <1>2, <2>1 DEF InStep
  <2> QED BY <1>1, <2>1, <2>2, MovesKeep
<1>12. CASE LogUnblock(c)
  <2>1. PICK from \in {"log_unblock", "log_failed_unblock"} :
          Moves(c, from, "idle", ip) /\ UNCHANGED <<rules, blocked_ips, restarts>>
    BY <1>5, <1>12 DEF LogUnblock, LogAction, Goto, Return, Moves
  <2>2. InStep(ip) => InStep(ip)'
    BY <1>2, <2>1 DEF InStep
  <2> QED BY <1>1, <2>1, <2>2, MovesKeep
<1> QED BY <1>3, <1>4, <1>8, <1>9, <1>10, <1>11, <1>12 DEF UnblockStep

\* After a restart what has a rule is in the set: it was in the log.
LEMMA RestartAgrees == ASSUME AgreeInv, FileInv', Restart PROVE AgreeInv'
<1>1. /\ blocked_ips' = LoadedFrom(log) /\ rules' = rules /\ restarts' = restarts + 1
      /\ pc' = [c \in Callers |-> "idle"]
      /\ doubt' = doubt \cup {arg[c] : c \in {c \in Callers : pc[c] # "idle"}}
      /\ restarts \in Nat
  BY DEF Restart, AgreeInv
<1>2. \A here, ip : "idle" \notin here => ~Working(here, ip)'
  BY <1>1 DEF Working
<1>3. ASSUME NEW ip \in Ips, ip \notin doubt' PROVE InStep(ip)'
  <2>1. ip \notin doubt /\ ~AboutToLog(ip)
    BY <1>1, <1>3 DEF AboutToLog
  <2>2. rules[ip] \in {0, 1} /\ (rules[ip] = 1 => ip \in blocked_ips')
    BY <1>1, <2>1 DEF AgreeInv, FileInv, InStep
  <2>3. /\ ~Working({"track"}, ip)' /\ ~Working({"add", "track"}, ip)'
        /\ ~Working({"untrack"}, ip)' /\ ~Working({"delete", "untrack"}, ip)'
    BY <1>2
  <2>4. restarts' # 0
    BY <1>1
  <2> QED BY <1>1, <2>2, <2>3, <2>4 DEF InStep
<1>4. /\ \A d \in Blockers : pc'[d] = "idle"
      /\ \A d \in Operators : pc'[d] = "idle"
  BY <1>1 DEF Callers
<1>5. blocked_ips' \subseteq Ips /\ restarts' \in Nat
  BY <1>1, LoadedAreIps DEF AgreeInv, FileInv
<1> QED BY <1>3, <1>4, <1>5 DEF AgreeInv

LEMMA AgreeAlways == ASSUME OneAtATime PROVE Spec => []AgreeInv
<1>1. Init => AgreeInv
  <2> SUFFICES ASSUME Init PROVE AgreeInv
    OBVIOUS
  <2>1. \A ip \in Ips : InStep(ip)
    BY DEF Init, InStep, Working
  <2>2. restarts = 0 /\ blocked_ips = {} /\ \A c \in Callers : pc[c] = "idle"
    BY DEF Init
  <2> QED BY <2>1, <2>2, FileInitial DEF AgreeInv, Callers
<1>2. AgreeInv /\ [Next]_vars => AgreeInv'
  <2> SUFFICES ASSUME AgreeInv, [Next]_vars PROVE AgreeInv'
    OBVIOUS
  <2>1. FileInv'
    BY FileInductive DEF AgreeInv
  <2>2. CASE UNCHANGED vars
    BY <2>1, <2>2 DEF vars, AgreeInv, InStep, Working
  <2> QED BY <2>1, <2>2, BlockStepAgrees, UnblockStepAgrees, RestartAgrees DEF Next
<1> QED BY <1>1, <1>2, PTL DEF Spec

\* With one DB worker and one operator, on Linux and Windows, an address in the set
\* (firewall_enforcer.py:286) has a rule, until the process restarts: whatever
\* fails or times out, and however the two interleave.
THEOREM TheSetIsTrueAtFirst ==
    ASSUME OneAtATime PROVE Spec => []CurrentlyBlockedAtFirst
<1>1. AgreeInv => CurrentlyBlockedAtFirst
  <2> SUFFICES ASSUME AgreeInv, restarts = 0, NEW ip \in blocked_ips, Settled(ip)
               PROVE  rules[ip] > 0
    BY DEF CurrentlyBlockedAtFirst, CurrentlyBlocked
  <2>1. ~Working({"untrack"}, ip)
    BY DEF Working, Settled
  <2>2. ip \in Ips
    BY DEF AgreeInv
  <2> QED BY <2>1, <2>2 DEF AgreeInv, InStep, Settled
<1> QED BY <1>1, AgreeAlways, PTL

\* The other way round, after restarts as well: what the system blocks is in the set,
\* and unblock_ip can reach it.
THEOREM RulesCanBeReached ==
    ASSUME OneAtATime PROVE Spec => []RulesAreTracked
<1>1. AgreeInv => RulesAreTracked
  <2> SUFFICES ASSUME AgreeInv, NEW ip \in Ips, rules[ip] > 0, Settled(ip)
               PROVE  ip \in blocked_ips
    BY DEF RulesAreTracked
  <2>1. ~Working({"track"}, ip)
    BY DEF Working, Settled
  <2> QED BY <2>1 DEF AgreeInv, InStep, Settled
<1> QED BY <1>1, AgreeAlways, PTL

-----------------------------------------------------------------------------
(* Sets put in order.                                                        *)

\* before orders s strictly, and any two members of it.
Orders(before, s) ==
    /\ \A x \in s : <<x, x>> \notin before
    /\ \A x, y, z \in s : <<x, y>> \in before /\ <<y, z>> \in before => <<x, z>> \in before
    /\ \A x, y \in s : x # y => <<x, y>> \in before \/ <<y, x>> \in before

\* Arranged by rank, every member of a finite set has one place, and the places
\* follow the order.
LEMMA InOrderFacts ==
    ASSUME NEW s, IsFiniteSet(s), NEW before, Orders(before, s)
    PROVE  LET f == InOrder(s, before) n == Cardinality(s)
           IN  /\ n \in Nat /\ f \in [1..n -> s]
               /\ \A x \in s : \E i \in 1..n : f[i] = x
               /\ \A i, j \in 1..n : i < j => f[i] # f[j] /\ <<f[i], f[j]>> \in before
<1> DEFINE f == InOrder(s, before)
           n == Cardinality(s)
           below(x) == {y \in s : <<y, x>> \in before}
           rank == [x \in s |-> Cardinality(below(x))]
<1>1. n \in Nat
  BY FS_CardinalityType
<1>2. ASSUME NEW x \in s
      PROVE  IsFiniteSet(below(x)) /\ rank[x] \in 0..(n - 1)
  <2>1. below(x) \in SUBSET (s \ {x})
    BY DEF Orders
  <2>2. IsFiniteSet(s \ {x}) /\ Cardinality(s \ {x}) = n - 1
    BY FS_RemoveElement
  <2>3. IsFiniteSet(below(x)) /\ Cardinality(below(x)) <= n - 1
    <3> DEFINE T == s \ {x}
    <3>1. below(x) \subseteq T
      BY <2>1
    <3>2. IsFiniteSet(T) /\ Cardinality(T) = n - 1
      BY <2>2
    <3> HIDE DEF T, below, n
    <3>3. IsFiniteSet(below(x)) /\ Cardinality(below(x)) <= Cardinality(T)
      BY <3>1, <3>2, FS_Subset
    <3> QED BY <3>2, <3>3
  <2>4. Cardinality(below(x)) \in Nat
    BY <2>3, FS_CardinalityType
  <2>5. rank[x] = Cardinality(below(x))
    OBVIOUS
  <2> HIDE DEF rank, below, n
  <2> QED BY <1>1, <2>3, <2>4, <2>5
<1>3. ASSUME NEW x \in s, NEW y \in s, <<x, y>> \in before
      PROVE  rank[x] < rank[y]
  <2>1. below(x) \in SUBSET below(y) /\ x \in below(y) /\ x \notin below(x)
    BY <1>3 DEF Orders
  <2>2. IsFiniteSet(below(y))
    BY <1>2
  <2>3. Cardinality(below(x)) <= Cardinality(below(y)) /\ Cardinality(below(x)) # Cardinality(below(y))
    BY <2>1, <2>2, FS_Subset
  <2>4. rank[x] <= rank[y] /\ rank[x] # rank[y]
    BY <2>3
  <2>5. rank[x] \in 0..(n - 1) /\ rank[y] \in 0..(n - 1)
    BY <1>2
  <2> HIDE DEF rank, n
  <2> QED BY <1>1, <2>4, <2>5
<1>4. ASSUME NEW i \in 1..n, \E x \in s : rank[x] = i - 1
      PROVE  f[i] \in s /\ rank[f[i]] = i - 1
  <2>1. f[i] = CHOOSE x \in s : Cardinality({y \in s : <<y, x>> \in before}) = i - 1
    BY DEF InOrder
  <2>2. \E x \in s : Cardinality({y \in s : <<y, x>> \in before}) = i - 1
    BY <1>4
  <2>3. f[i] \in s /\ Cardinality({y \in s : <<y, f[i]>> \in before}) = i - 1
    <3> HIDE DEF f, rank, n
    <3> QED BY <2>1, <2>2
  <2> QED BY <2>3
<1>40. ASSUME \A i \in 1..n : f[i] \in s PROVE f \in [1..n -> s]
  <2> DEFINE at(i) == CHOOSE x \in s : Cardinality({y \in s : <<y, x>> \in before}) = i - 1
  <2>1. f = [i \in 1..n |-> at(i)]
    BY DEF InOrder
  <2>2. \A i \in 1..n : at(i) \in s
    BY <1>40, <2>1
  <2> HIDE DEF at, f, n
  <2> QED BY <2>1, <2>2
<1>5. IsFiniteSet(1..n) /\ Cardinality(1..n) = n
  BY <1>1, FS_Interval
<1>6. Cardinality(s) = n
  OBVIOUS
<1>7. \A x \in s : rank[x] \in 0..(n - 1)
  BY <1>2
<1>8. \A x, y \in s : <<x, y>> \in before => rank[x] < rank[y]
  BY <1>3
<1> HIDE DEF rank, f, n
<1>9. ASSUME NEW x \in s, NEW y \in s, rank[x] = rank[y]
      PROVE  x = y
  <2>1. rank[x] \in Int /\ rank[y] \in Int
    BY <1>1, <1>7
  <2>2. <<x, y>> \notin before /\ <<y, x>> \notin before
    BY <1>8, <1>9, <2>1
  <2> QED BY <2>2 DEF Orders
<1>10. ASSUME NEW i \in 1..n PROVE \E x \in s : rank[x] = i - 1
  <2> DEFINE g == [x \in s |-> rank[x] + 1]
  <2>1. g \in [s -> 1..n]
    BY <1>1, <1>7
  <2>2. \A x, y \in s : g[x] = g[y] => x = y
    BY <1>1, <1>7, <1>9
  <2>3. g \in Injection(s, 1..n)
    BY <2>1, <2>2, Fun_IsInj
  <2>4. g \in Surjection(s, 1..n)
    BY <1>5, <1>6, <2>3, FS_Injection
  <2>5. \E x \in s : g[x] = i
    BY <2>4 DEF Surjection
  <2> QED BY <1>1, <1>7, <2>5
<1>11. ASSUME NEW i \in 1..n PROVE f[i] \in s /\ rank[f[i]] = i - 1
  BY <1>4, <1>10
<1>12. f \in [1..n -> s]
  BY <1>40, <1>11
<1>13. ASSUME NEW x \in s PROVE \E i \in 1..n : f[i] = x
  <2>1. rank[x] + 1 \in 1..n /\ (rank[x] + 1) - 1 = rank[x]
    BY <1>1, <1>7
  <2>2. rank[f[rank[x] + 1]] = rank[x] /\ f[rank[x] + 1] \in s
    BY <1>11, <2>1
  <2> QED BY <1>9, <2>1, <2>2
<1>14. ASSUME NEW i \in 1..n, NEW j \in 1..n, i < j
       PROVE  f[i] # f[j] /\ <<f[i], f[j]>> \in before
  <2>1. f[i] \in s /\ f[j] \in s /\ rank[f[i]] = i - 1 /\ rank[f[j]] = j - 1
    BY <1>11
  <2>2. ~(rank[f[j]] < rank[f[i]]) /\ rank[f[i]] # rank[f[j]]
    BY <1>1, <1>14, <2>1
  <2> QED BY <1>8, <2>1, <2>2 DEF Orders
<1> QED BY <1>1, <1>12, <1>13, <1>14 DEF f, n

\* The same for numbers.
LEMMA AscendingFacts ==
    ASSUME NEW s, s \subseteq Nat, IsFiniteSet(s)
    PROVE  LET f == Ascending(s) n == Cardinality(s)
           IN  /\ n \in Nat /\ f \in [1..n -> s]
               /\ \A x \in s : \E i \in 1..n : f[i] = x
               /\ \A i, j \in 1..n : i < j => f[i] < f[j]
<1> DEFINE before == {p \in s \X s : p[1] < p[2]}
<1>1. \A x, y \in s : <<x, y>> \in before <=> x < y
  OBVIOUS
<1>2. Orders(before, s)
  BY <1>1 DEF Orders
<1>3. Ascending(s) = InOrder(s, before)
  BY DEF Ascending
<1> HIDE DEF before
<1>4. LET f == InOrder(s, before) n == Cardinality(s)
      IN  /\ n \in Nat /\ f \in [1..n -> s]
          /\ \A x \in s : \E i \in 1..n : f[i] = x
          /\ \A i, j \in 1..n : i < j => f[i] # f[j] /\ <<f[i], f[j]>> \in before
  BY <1>2, InOrderFacts
<1> QED BY <1>1, <1>3, <1>4

\* What is picked from a sequence is in it, and nothing is left out.
LEMMA PickedFacts ==
    ASSUME NEW S, NEW q \in Seq(S), NEW s, s \subseteq DOMAIN q
    PROVE  /\ Picked(q, s) \in Seq({q[i] : i \in s})
           /\ Len(Picked(q, s)) = Cardinality(s)
           /\ \A i \in s : \E k \in 1..Cardinality(s) : Picked(q, s)[k] = q[i]
<1>1. DOMAIN q = 1..Len(q) /\ Len(q) \in Nat
  BY LenProperties
<1>2. IsFiniteSet(1..Len(q))
  BY <1>1, 1 \in Int, Len(q) \in Int, FS_Interval
<1>3. IsFiniteSet(s) /\ s \subseteq Nat
  BY <1>1, <1>2, FS_Subset
<1> DEFINE at == Ascending(s) n == Cardinality(s)
<1>4. /\ n \in Nat /\ at \in [1..n -> s]
      /\ \A x \in s : \E i \in 1..n : at[i] = x
      /\ \A i, j \in 1..n : i < j => at[i] < at[j]
  BY <1>3, AscendingFacts
<1>5. Picked(q, s) = [k \in DOMAIN at |-> q[at[k]]]
  BY DEF Picked
<1> HIDE DEF at, n
<1>6. Picked(q, s) \in [1..n -> {q[i] : i \in s}]
  BY <1>4, <1>5
<1>7. Picked(q, s) \in Seq({q[i] : i \in s}) /\ Len(Picked(q, s)) = n
  BY <1>4, <1>6, SeqDef, LenProperties
<1>8. \A i \in s : \E k \in 1..n : Picked(q, s)[k] = q[i]
  BY <1>4, <1>5
<1> QED BY <1>7, <1>8 DEF n

-----------------------------------------------------------------------------
(* The signature store.                                                      *)

\* Whatever is remembered, queued, written or exported is an event logged so far.
SigTypes ==
    /\ record_id \in Nat /\ logged \in Nat /\ logged <= MaxEvents
    /\ grade \in [Events -> Grades]
    /\ local \subseteq [id : Nat, event : 1..logged] /\ IsFiniteSet(local)
    /\ global \subseteq [id : Nat, event : 1..logged] /\ IsFiniteSet(global)
    /\ write_queue \in Seq(1..logged) /\ batch \in Seq(1..logged) /\ sig \in Seq(1..logged)
    /\ lpc \in [Loggers -> {"idle", "gate", "force", "queue", "sweep"}]
    /\ made \in [Loggers -> [id : Nat, event : 0..logged]]
    /\ \A t \in Loggers : lpc[t] \in {"gate", "force", "queue"} => made[t].event \in 1..logged
    /\ epc \in [Exporters -> {"idle", "open", "write"}]
    /\ shot \in [Exporters -> Seq(1..logged)]
    /\ exported \subseteq 1..logged
    /\ cut \in BOOLEAN

LEMMA SeqGrows ==
    ASSUME NEW m \in Nat, NEW n \in Nat, m <= n
    PROVE  Seq(1..m) \subseteq Seq(1..n)
<1>1. 1..m \subseteq 1..n
  OBVIOUS
<1> QED BY <1>1, SeqDef

\* A piece of a sequence holds what the sequence held.
LEMMA PieceIsSeq ==
    ASSUME NEW S, NEW s \in Seq(S), NEW m \in Nat, 1 <= m, NEW n \in Nat, n <= Len(s)
    PROVE  SubSeq(s, m, n) \in Seq(S)
<1>1. Len(s) \in Nat
  BY LenProperties
<1>2. \A i \in m..n : i \in 1..Len(s)
  BY <1>1
<1>3. \A i \in m..n : s[i] \in S
  BY <1>2, ElementOfSeq
<1> QED BY <1>3, SubSeqProperties

\* What a scope holds after an insertion was there before or is new.
LEMMA InsertedFacts ==
    ASSUME NEW scope, IsFiniteSet(scope), NEW r, NEW size, NEW after \in Inserted(scope, r, size)
    PROVE  after \subseteq scope \cup {r} /\ IsFiniteSet(after)
<1> DEFINE T == scope \cup {r}
<1>1. IsFiniteSet(T)
  BY FS_AddElement
<1>2. after \in SUBSET T
  BY DEF Inserted
<1> HIDE DEF T
<1>3. IsFiniteSet(after)
  BY <1>1, <1>2, FS_Subset
<1> QED BY <1>2, <1>3 DEF T

\* A restart remembers lines of the file, under their numbers.
LEMMA GlobalScopesFacts ==
    ASSUME NEW S, sig \in Seq(S), NEW g \in GlobalScopes
    PROVE  /\ IsFiniteSet(g)
           /\ \A r \in g : \E i \in 1..Len(sig) : r = [id |-> i, event |-> sig[i]]
<1> DEFINE loaded == {[id |-> i, event |-> sig[i]] : i \in DOMAIN sig}
           line == [i \in 1..Len(sig) |-> [id |-> i, event |-> sig[i]]]
<1>1. DOMAIN sig = 1..Len(sig) /\ Len(sig) \in Nat
  BY LenProperties
<1>2. g \in SUBSET loaded
  BY DEF GlobalScopes
<1>3. loaded = {line[i] : i \in 1..Len(sig)}
  BY <1>1
<1>4. line \in Surjection(1..Len(sig), loaded)
  <2>1. line \in [1..Len(sig) -> loaded]
    BY <1>1
  <2>2. \A r \in loaded : \E i \in 1..Len(sig) : line[i] = r
    BY <1>3
  <2> HIDE DEF line, loaded
  <2> QED BY <2>1, <2>2 DEF Surjection
<1>5. IsFiniteSet(1..Len(sig))
  BY <1>1, 1 \in Int, Len(sig) \in Int, FS_Interval
<1>6. IsFiniteSet(loaded)
  <2> HIDE DEF loaded, line
  <2> QED BY <1>4, <1>5, FS_Surjection
<1>7. IsFiniteSet(g)
  <2> HIDE DEF loaded
  <2> QED BY <1>2, <1>6, FS_Subset
<1> QED BY <1>1, <1>2, <1>7

LEMMA SigTypesInitial == DbInit => SigTypes
<1> SUFFICES ASSUME DbInit PROVE SigTypes
  OBVIOUS
<1>1. IsFiniteSet({})
  BY FS_EmptySet
<1>2. <<>> \in Seq(1..logged)
  OBVIOUS
<1>3. cut \in BOOLEAN
  BY DEF DbInit
<1> QED BY <1>1, <1>2, <1>3, SignatureAssumption DEF DbInit, SigTypes, Grades, NotMade, Events

LEMMA SigTypesKept == SigTypes /\ [DbNext]_dbVars => SigTypes'
<1> SUFFICES ASSUME SigTypes, [DbNext]_dbVars PROVE SigTypes'
  OBVIOUS
<1>1. ASSUME NEW t \in Loggers, Log(t) PROVE SigTypes'
  <2>1. logged' = logged + 1 /\ logged' \in Nat /\ logged' <= MaxEvents
    BY <1>1, SignatureAssumption DEF Log, SigTypes
  <2>2. 1..logged \subseteq 1..logged' /\ 0..logged \subseteq 0..logged' /\ logged' \in 1..logged'
    BY <2>1 DEF SigTypes
  <2>3. Seq(1..logged) \subseteq Seq(1..logged')
    BY <2>1, SeqGrows DEF SigTypes
  <2>4. grade' \in [Events -> Grades]
    BY <1>1 DEF Log, SigTypes
  <2>5. made' \in [Loggers -> [id : Nat, event : 0..logged']]
    <3>1. [id |-> 0, event |-> logged'] \in [id : Nat, event : 0..logged']
      BY <2>1
    <3>2. made \in [Loggers -> [id : Nat, event : 0..logged']]
      BY <2>2 DEF SigTypes
    <3> QED BY <1>1, <3>1, <3>2 DEF Log
  <2>6. \A u \in Loggers : lpc'[u] \in {"gate", "force", "queue"} => made'[u].event \in 1..logged'
    BY <1>1, <2>2 DEF Log, SigTypes
  <2>7. lpc' \in [Loggers -> {"idle", "gate", "force", "queue", "sweep"}]
    BY <1>1 DEF Log, SigTypes
  <2>8. shot' \in [Exporters -> Seq(1..logged')]
    BY <1>1, <2>3 DEF Log, SigTypes, exporters
  <2>9. [id : Nat, event : 1..logged] \subseteq [id : Nat, event : 1..logged']
    BY <2>2
  <2>10. record_id' \in Nat
    BY <1>1 DEF Log, SigTypes
  <2>11. UNCHANGED <<local, global, write_queue, batch, sig, epc, exported, cut>>
    BY <1>1 DEF Log, exporters, writer
  <2> QED BY <2>1, <2>2, <2>3, <2>4, <2>5, <2>6, <2>7, <2>8, <2>9, <2>10, <2>11 DEF SigTypes
<1>2. ASSUME NEW t \in Loggers, Write(t) PROVE SigTypes'
  <2> DEFINE r == [id |-> record_id, event |-> made[t].event]
  <2>1. r \in [id : Nat, event : 1..logged]
    BY <1>2 DEF Write, SigTypes
  <2>2. local' \subseteq local \cup {r} /\ IsFiniteSet(local')
    <3>1. CASE local' = local
      BY <3>1 DEF SigTypes
    <3>2. CASE local' \in Inserted(local, r, MaxPerScope)
      <4>1. IsFiniteSet(local)
        BY DEF SigTypes
      <4> HIDE DEF r
      <4> QED BY <3>2, <4>1, InsertedFacts
    <3> QED BY <1>2, <3>1, <3>2 DEF Write
  <2>3. made' = [made EXCEPT ![t] = r]
    BY <1>2 DEF Write
  <2>4. made' \in [Loggers -> [id : Nat, event : 0..logged]]
    <3>1. [id : Nat, event : 1..logged] \subseteq [id : Nat, event : 0..logged]
      OBVIOUS
    <3> HIDE DEF r
    <3> QED BY <2>1, <2>3, <3>1 DEF SigTypes
  <2>5. \A u \in Loggers : lpc'[u] \in {"gate", "force", "queue"} => made'[u].event \in 1..logged
    <3> SUFFICES ASSUME NEW u \in Loggers, lpc'[u] \in {"gate", "force", "queue"}
                 PROVE  made'[u].event \in 1..logged
      OBVIOUS
    <3>1. CASE u = t
      BY <1>2, <3>1 DEF Write, SigTypes
    <3>2. CASE u # t
      BY <1>2, <3>2 DEF Write, SigTypes
    <3> QED BY <3>1, <3>2
  <2>6. lpc' \in [Loggers -> {"idle", "gate", "force", "queue", "sweep"}]
    BY <1>2 DEF Write, SigTypes
  <2>7. local' \subseteq [id : Nat, event : 1..logged]
    BY <2>1, <2>2 DEF SigTypes
  <2> HIDE DEF r
  <2> QED BY <1>2, <2>2, <2>4, <2>5, <2>6, <2>7 DEF Write, SigTypes, writer, exporters
<1>3. ASSUME NEW t \in Loggers, WriteGlobal(t) PROVE SigTypes'
  <2>1. made[t] \in [id : Nat, event : 1..logged]
    BY <1>3 DEF WriteGlobal, SigTypes
  <2>2. global' \subseteq global \cup {made[t]} /\ IsFiniteSet(global')
    BY <1>3, InsertedFacts DEF WriteGlobal, SigTypes
  <2>3. global' \subseteq [id : Nat, event : 1..logged]
    BY <2>1, <2>2 DEF SigTypes
  <2>4. lpc' \in [Loggers -> {"idle", "gate", "force", "queue", "sweep"}]
    BY <1>3 DEF WriteGlobal, SigTypes
  <2>5. \A u \in Loggers : lpc'[u] \in {"gate", "force", "queue"} => lpc[u] \in {"gate", "force", "queue"}
    BY <1>3 DEF WriteGlobal, SigTypes
  <2> QED BY <1>3, <2>2, <2>3, <2>4, <2>5 DEF WriteGlobal, SigTypes, writer, exporters
<1>4. ASSUME NEW t \in Loggers, Enqueue(t) PROVE SigTypes'
  <2>1. write_queue' \in Seq(1..logged)
    BY <1>4 DEF Enqueue, SigTypes
  <2>2. lpc' \in [Loggers -> {"idle", "gate", "force", "queue", "sweep"}]
    BY <1>4 DEF Enqueue, SigTypes
  <2>3. \A u \in Loggers : lpc'[u] \in {"gate", "force", "queue"} => lpc[u] \in {"gate", "force", "queue"}
    BY <1>4 DEF Enqueue, SigTypes
  <2> QED BY <1>4, <2>1, <2>2, <2>3 DEF Enqueue, SigTypes, writer, exporters, memory
<1>5. ASSUME NEW t \in Loggers, SweepScopes(t) PROVE SigTypes'
  <2>1. local' \in SUBSET local /\ global' \in SUBSET global
    BY <1>5 DEF SweepScopes
  <2>2. IsFiniteSet(local') /\ IsFiniteSet(global')
    BY <2>1, FS_Subset DEF SigTypes
  <2>3. lpc' \in [Loggers -> {"idle", "gate", "force", "queue", "sweep"}]
    BY <1>5 DEF SweepScopes, SigTypes
  <2>4. \A u \in Loggers : lpc'[u] \in {"gate", "force", "queue"} => lpc[u] \in {"gate", "force", "queue"}
    BY <1>5 DEF SweepScopes, SigTypes
  <2> QED BY <1>5, <2>1, <2>2, <2>3, <2>4 DEF SweepScopes, SigTypes, writer, exporters
<1>6. CASE TakeBatch
  BY <1>6 DEF TakeBatch, SigTypes, memory, loggers, exporters
<1>7. CASE AppendLog
  BY <1>7 DEF AppendLog, SigTypes, memory, loggers, exporters
<1>8. CASE AppendSignatures
  <2> DEFINE at == {i \in DOMAIN batch : Signed(batch[i])}
             S == 1..logged
  <2>1. batch \in Seq(S) /\ sig \in Seq(S) /\ at \subseteq DOMAIN batch
    BY DEF SigTypes
  <2>2. Picked(batch, at) \in Seq({batch[i] : i \in at})
    <3> HIDE DEF at, S
    <3> QED BY <2>1, PickedFacts
  <2>3. {batch[i] : i \in at} \subseteq S
    <3> HIDE DEF S
    <3> QED BY <2>1, ElementOfSeq, LenProperties
  <2>4. Picked(batch, at) \in Seq(S)
    <3> HIDE DEF at, S
    <3> QED BY <2>2, <2>3, SeqDef
  <2>5. PICK torn \in IF faults = 0 THEN {0} ELSE 0..1 :
               sig' = sig \o SubSeq(Picked(batch, at), 1 + torn, Len(Picked(batch, at)))
    BY <1>8 DEF AppendSignatures
  <2>6. sig' \in Seq(S)
    <3> HIDE DEF at, S
    <3>1. SubSeq(Picked(batch, at), 1 + torn, Len(Picked(batch, at))) \in Seq(S)
      BY <2>4, PieceIsSeq, LenProperties
    <3> QED BY <2>1, <2>5, <3>1, ConcatProperties
  <2>7. batch' = <<>> /\ batch' \in Seq(1..logged)
    BY <1>8 DEF AppendSignatures
  <2> HIDE DEF at
  <2> QED BY <1>8, <2>6, <2>7 DEF AppendSignatures, SigTypes, memory, loggers, exporters
<1>9. CASE FlushFails
  BY <1>9 DEF FlushFails, SigTypes, memory, loggers, exporters
<1>10. ASSUME NEW t \in Exporters, Collect(t) PROVE SigTypes'
  <2>1. PICK c \in SUBSET AllRecords :
          LET signatures == {r \in c : Signed(r.event)}
          IN  /\ Firsts(c)
              /\ \E order \in Bijection(1..Cardinality(signatures), signatures) :
                   shot' = [shot EXCEPT ![t] = [i \in DOMAIN order |-> order[i].event]]
    BY <1>10 DEF Collect
  <2> DEFINE signatures == {r \in c : Signed(r.event)}
  <2>2. PICK order \in Bijection(1..Cardinality(signatures), signatures) :
               shot' = [shot EXCEPT ![t] = [i \in DOMAIN order |-> order[i].event]]
    BY <2>1
  <2>3. signatures \in SUBSET (local \cup global)
    BY DEF AllRecords
  <2>4. Cardinality(signatures) \in Nat
    <3>1. IsFiniteSet(local \cup global)
      BY FS_Union DEF SigTypes
    <3> HIDE DEF signatures
    <3> QED BY <2>3, <3>1, FS_Subset, FS_CardinalityType
  <2>5. signatures \subseteq [id : Nat, event : 1..logged]
    BY <2>3 DEF SigTypes
  <2> HIDE DEF signatures
  <2>6. order \in [1..Cardinality(signatures) -> signatures]
    BY <2>2 DEF Bijection, Injection
  <2>7. [i \in DOMAIN order |-> order[i].event] \in [1..Cardinality(signatures) -> 1..logged]
    BY <2>5, <2>6
  <2>8. [i \in DOMAIN order |-> order[i].event] \in Seq(1..logged)
    <3> DEFINE lines == [i \in DOMAIN order |-> order[i].event]
    <3>1. lines \in [1..Cardinality(signatures) -> 1..logged]
      BY <2>7
    <3> HIDE DEF lines
    <3>2. lines \in Seq(1..logged)
      BY <2>4, <3>1, SeqDef
    <3> QED BY <3>2 DEF lines
  <2>9. shot' \in [Exporters -> Seq(1..logged)]
    BY <2>2, <2>8 DEF SigTypes
  <2>10. epc' \in [Exporters -> {"idle", "open", "write"}]
    BY <1>10 DEF Collect, SigTypes
  <2> QED BY <1>10, <2>9, <2>10 DEF Collect, SigTypes, memory, writer, loggers
<1>11. ASSUME NEW t \in Exporters, Open(t) PROVE SigTypes'
  <2>1. sig' = <<>> /\ sig' \in Seq(1..logged)
    BY <1>11 DEF Open
  <2>2. epc' \in [Exporters -> {"idle", "open", "write"}]
    BY <1>11 DEF Open, SigTypes
  <2> QED BY <1>11, <2>1, <2>2 DEF Open, SigTypes, memory, writer, loggers
<1>12. ASSUME NEW t \in Exporters, Close(t) PROVE SigTypes'
  <2> DEFINE S == 1..logged
  <2>1. PICK torn \in 0..1 :
               sig' = shot[t] \o SubSeq(sig, Len(shot[t]) + 1 + torn, Len(sig))
    BY <1>12 DEF Close
  <2>2. shot[t] \in Seq(S) /\ sig \in Seq(S) /\ Len(shot[t]) \in Nat /\ Len(sig) \in Nat
    BY <1>12, LenProperties DEF SigTypes
  <2>3. SubSeq(sig, Len(shot[t]) + 1 + torn, Len(sig)) \in Seq(S)
    <3> HIDE DEF S
    <3> QED BY <2>2, PieceIsSeq
  <2>4. sig' \in Seq(S)
    <3> HIDE DEF S
    <3> QED BY <2>1, <2>2, <2>3, ConcatProperties
  <2>5. exported' \subseteq S
    <3>1. \A i \in DOMAIN shot[t] : shot[t][i] \in S
      <4> HIDE DEF S
      <4> QED BY <2>2, ElementOfSeq, LenProperties
    <3> QED BY <1>12, <3>1 DEF Close, SigTypes
  <2>6. shot' \in [Exporters -> Seq(S)]
    BY <1>12 DEF Close, SigTypes
  <2>7. epc' \in [Exporters -> {"idle", "open", "write"}]
    BY <1>12 DEF Close, SigTypes
  <2> QED BY <1>12, <2>4, <2>5, <2>6, <2>7 DEF Close, SigTypes, memory, writer, loggers
<1>15. ASSUME NEW t \in Exporters, ExportFails(t) PROVE SigTypes'
  <2> DEFINE S == 1..logged
  <2>1. shot[t] \in Seq(S) /\ sig \in Seq(S) /\ Len(shot[t]) \in Nat /\ Len(sig) \in Nat
    BY <1>15, LenProperties DEF SigTypes
  <2>2. sig' \in Seq(S) /\ cut' \in BOOLEAN
    <3>1. CASE UNCHANGED <<sig, cut>>
      BY <3>1 DEF SigTypes
    <3>2. ASSUME NEW n \in 0..Len(shot[t]), NEW torn \in 0..1, cut' = TRUE,
                 sig' = SubSeq(shot[t], 1, n) \o SubSeq(sig, n + 1 + torn, Len(sig))
          PROVE  sig' \in Seq(S) /\ cut' \in BOOLEAN
      <4> HIDE DEF S
      <4>1. SubSeq(shot[t], 1, n) \in Seq(S) /\ SubSeq(sig, n + 1 + torn, Len(sig)) \in Seq(S)
        BY <2>1, PieceIsSeq
      <4> QED BY <3>2, <4>1, ConcatProperties
    <3> QED BY <1>15, <3>1, <3>2 DEF ExportFails
  <2>3. shot' \in [Exporters -> Seq(S)]
    BY <1>15 DEF ExportFails, SigTypes
  <2>4. epc' \in [Exporters -> {"idle", "open", "write"}]
    BY <1>15 DEF ExportFails, SigTypes
  <2> QED BY <1>15, <2>2, <2>3, <2>4 DEF ExportFails, SigTypes, memory, writer, loggers
<1>13. CASE Reopen
  <2>1. global' \subseteq [id : Nat, event : 1..logged] /\ IsFiniteSet(global')
    <3>1. /\ IsFiniteSet(global')
          /\ \A r \in global' : \E i \in 1..Len(sig) : r = [id |-> i, event |-> sig[i]]
      BY <1>13, GlobalScopesFacts DEF Reopen, SigTypes
    <3>2. \A i \in 1..Len(sig) : i \in Nat /\ sig[i] \in 1..logged
      BY LenProperties, ElementOfSeq DEF SigTypes
    <3> QED BY <3>1, <3>2
  <2>2. local' = {} /\ IsFiniteSet(local')
    BY <1>13, FS_EmptySet DEF Reopen
  <2>3. record_id' \in Nat
    BY <1>13, LenProperties DEF Reopen, Loaded, SigTypes
  <2>4. /\ write_queue' \in Seq(1..logged) /\ batch' \in Seq(1..logged)
        /\ shot' \in [Exporters -> Seq(1..logged)]
    BY <1>13 DEF Reopen
  <2>5. /\ made' \in [Loggers -> [id : Nat, event : 0..logged]]
        /\ lpc' \in [Loggers -> {"idle", "gate", "force", "queue", "sweep"}]
        /\ epc' \in [Exporters -> {"idle", "open", "write"}]
        /\ \A t \in Loggers : lpc'[t] = "idle"
    BY <1>13 DEF Reopen, NotMade, SigTypes
  <2>6. UNCHANGED <<logged, grade, sig, exported>> /\ cut' = FALSE
    BY <1>13 DEF Reopen
  <2> QED BY <2>1, <2>2, <2>3, <2>4, <2>5, <2>6 DEF SigTypes
<1>14. CASE UNCHANGED dbVars
  BY <1>14 DEF dbVars, SigTypes
<1> QED BY <1>1, <1>2, <1>3, <1>4, <1>5, <1>6, <1>7, <1>8, <1>9, <1>10, <1>11, <1>12, <1>13, <1>14,
           <1>15
        DEF DbNext, Logger, Writer, Exporter

\* Between the two reads of the counter no record has its value; after them only
\* the one being written does.
FreshIds ==
    /\ \A r \in local \cup global : r.id <= record_id
    /\ \A t \in Loggers : lpc[t] = "gate" => \A r \in local \cup global : r.id < record_id
    /\ \A t \in Loggers : lpc[t] = "force" =>
           /\ made[t].id = record_id
           /\ \A r \in local \cup global : r.id = record_id => r.event = made[t].event
    /\ IdsAreDistinct

LEMMA FreshIdsInitial == DbInit => FreshIds
  BY DEF DbInit, FreshIds, IdsAreDistinct

\* Steps that remember nothing new keep the ids as they are.
LEMMA LessIsFresh ==
    ASSUME FreshIds, local' \subseteq local, global' \subseteq global, record_id' = record_id,
           \A t \in Loggers : lpc'[t] \in {"gate", "force"} => lpc'[t] = lpc[t] /\ made'[t] = made[t]
    PROVE  FreshIds'
  BY DEF FreshIds, IdsAreDistinct

LEMMA FreshIdsKept ==
    ASSUME NEW only, Loggers = {only}, SigTypes, FreshIds, [DbNext]_dbVars
    PROVE  FreshIds'
<1>1. ASSUME NEW t \in Loggers, Log(t) PROVE FreshIds'
  <2>1. record_id \in Nat /\ record_id' = record_id + 1 /\ local' = local /\ global' = global
    BY <1>1 DEF Log, SigTypes
  <2>2. \A r \in local \cup global : r.id \in Nat /\ r.id <= record_id
    BY DEF FreshIds, SigTypes
  <2>3. \A r \in local \cup global : r.id < record_id'
    BY <2>1, <2>2
  <2>4. \A u \in Loggers : lpc'[u] = "gate"
    BY <1>1 DEF Log, SigTypes
  <2> QED BY <2>1, <2>2, <2>3, <2>4 DEF FreshIds, IdsAreDistinct
<1>2. ASSUME NEW t \in Loggers, Write(t) PROVE FreshIds'
  <2> DEFINE r == [id |-> record_id, event |-> made[t].event]
  <2>1. local' \subseteq local \cup {r}
    <3>1. CASE local' = local
      BY <3>1
    <3>2. CASE local' \in Inserted(local, r, MaxPerScope)
      <4>1. IsFiniteSet(local)
        BY DEF SigTypes
      <4> HIDE DEF r
      <4> QED BY <3>2, <4>1, InsertedFacts
    <3> QED BY <1>2, <3>1, <3>2 DEF Write
  <2>2. /\ global' = global /\ record_id' = record_id
        /\ made'[t] = r /\ lpc'[t] # "gate" /\ Loggers = {t}
    BY <1>2 DEF Write, SigTypes
  <2>3. \A q \in local \cup global : q.id < record_id
    BY <1>2 DEF FreshIds, Write
  <2>4. \A q \in local' \cup global' : q \in local \cup global \/ q = r
    BY <2>1, <2>2
  <2>5. r.id = record_id /\ r.event = made[t].event /\ record_id \in Nat
    BY DEF SigTypes
  <2>6. \A q \in local \cup global : q.id \in Nat /\ q.id # record_id /\ q.id <= record_id
    BY <2>3, <2>5 DEF SigTypes
  <2> HIDE DEF r
  <2>7. \A q \in local' \cup global' : q.id <= record_id
    BY <2>4, <2>5, <2>6
  <2>8. \A q \in local' \cup global' : q.id = record_id => q = r
    BY <2>4, <2>5, <2>6
  <2>9. \A p, q \in local' \cup global' : p.id = q.id => p.event = q.event
    BY <2>4, <2>5, <2>6 DEF FreshIds, IdsAreDistinct
  <2> QED BY <2>2, <2>5, <2>7, <2>8, <2>9 DEF FreshIds, IdsAreDistinct
<1>3. ASSUME NEW t \in Loggers, WriteGlobal(t) PROVE FreshIds'
  <2>1. global' \subseteq global \cup {made[t]}
    BY <1>3, InsertedFacts DEF WriteGlobal, SigTypes
  <2>2. /\ local' = local /\ record_id' = record_id /\ made' = made
        /\ made[t].id = record_id /\ Loggers = {t} /\ lpc'[t] = "queue"
    BY <1>3 DEF WriteGlobal, FreshIds, SigTypes
  <2>3. \A q \in local \cup global : q.id = record_id => q.event = made[t].event
    BY <1>3 DEF WriteGlobal, FreshIds
  <2>4. \A q \in local' \cup global' : q \in local \cup global \/ q = made[t]
    BY <2>1, <2>2
  <2>5. record_id \in Nat
    BY DEF SigTypes
  <2>6. \A q \in local' \cup global' : q.id <= record_id
    BY <2>2, <2>4, <2>5 DEF FreshIds
  <2>7. \A p, q \in local' \cup global' : p.id = q.id => p.event = q.event
    BY <2>2, <2>3, <2>4 DEF FreshIds, IdsAreDistinct
  <2> QED BY <2>2, <2>6, <2>7 DEF FreshIds, IdsAreDistinct
<1>4. ASSUME NEW t \in Loggers, Enqueue(t) PROVE FreshIds'
  BY <1>4, LessIsFresh DEF Enqueue, memory, SigTypes
<1>5. ASSUME NEW t \in Loggers, SweepScopes(t) PROVE FreshIds'
  BY <1>5, LessIsFresh DEF SweepScopes, SigTypes
<1>6. CASE Writer \/ FlushFails
  BY <1>6, LessIsFresh DEF Writer, TakeBatch, AppendLog, AppendSignatures, FlushFails, memory, loggers
<1>7. ASSUME NEW t \in Exporters, Exporter(t) \/ ExportFails(t) PROVE FreshIds'
  BY <1>7, LessIsFresh DEF Exporter, Collect, Open, Close, ExportFails, memory, loggers
<1>8. CASE Reopen
  <2>1. /\ local' = {} /\ record_id' = Len(sig) /\ Len(sig) \in Nat
        /\ \A t \in Loggers : lpc'[t] = "idle"
    BY <1>8, LenProperties DEF Reopen, Loaded, SigTypes
  <2>2. \A r \in global' : \E i \in 1..Len(sig) : r = [id |-> i, event |-> sig[i]]
    BY <1>8, GlobalScopesFacts DEF Reopen, SigTypes
  <2>3. \A r \in global' : r.id <= Len(sig) /\ r.event = sig[r.id]
    BY <2>1, <2>2
  <2> QED BY <2>1, <2>3 DEF FreshIds, IdsAreDistinct
<1>9. CASE UNCHANGED dbVars
  BY <1>9, LessIsFresh DEF dbVars
<1> QED BY <1>1, <1>2, <1>3, <1>4, <1>5, <1>6, <1>7, <1>8, <1>9 DEF DbNext, Logger

\* With one logging thread an id names one event, across restarts too: the counter
\* that line 581 reads a second time is still the one the gate has moved.
THEOREM IdsNameEvents ==
    ASSUME NEW only, Loggers = {only}
    PROVE  DbSpec => []IdsAreDistinct
<1>1. SigTypes /\ FreshIds /\ [DbNext]_dbVars => (SigTypes /\ FreshIds)'
  BY SigTypesKept, FreshIdsKept
<1>2. DbInit => SigTypes /\ FreshIds
  BY SigTypesInitial, FreshIdsInitial
<1>3. FreshIds => IdsAreDistinct
  BY DEF FreshIds
<1> QED BY <1>1, <1>2, <1>3, PTL DEF DbSpec

-----------------------------------------------------------------------------
\* The events in memory, on disk and in an export, and the signatures.
InMemory == {r.event : r \in local \cup global}
Disk == Elements(sig)
Signatures == {e \in Events : Signed(e)}
Sticks == \A e \in exported \cap InMemory : e \in Disk

\* Exports are of signatures.  An event that waits at the gate is in none, and one
\* that is yet to enter the global scope is in none unless a source's scope still
\* has it.  What has been exported and is remembered is on disk, or about to be
\* written by the next export, unless the last one broke off.
Stuck ==
    /\ exported \subseteq Signatures
    /\ \A x \in Exporters : Elements(shot[x]) \subseteq Signatures
    /\ \A t \in Loggers : lpc[t] \in {"gate", "force"} /\ made[t].event \notin InMemory =>
           /\ made[t].event \notin exported
           /\ \A x \in Exporters : made[t].event \notin Elements(shot[x])
    /\ \A t \in Loggers : lpc[t] = "gate" => made[t].event \notin InMemory
    /\ \A x \in Exporters : epc[x] # "idle" => exported \cap InMemory \subseteq Elements(shot[x])
    /\ ~cut /\ (\A x \in Exporters : epc[x] # "write") => Sticks

LEMMA StuckMeans == Stuck => ExportsStick
  BY DEF Stuck, ExportsStick, Sticks, InMemory, Disk, Remembered, OnDisk

LEMMA StuckInitial == DbInit => Stuck
  BY DEF DbInit, Stuck, Sticks, Elements, InMemory

\* Steps that remember nothing exported that was forgotten, take nothing from the
\* disk, and leave the exports alone.
LEMMA StaysStuck ==
    ASSUME Stuck, UNCHANGED <<grade, epc, shot, exported, cut>>,
           exported \cap InMemory' \subseteq InMemory,
           Disk \subseteq Disk',
           \A t \in Loggers : lpc'[t] = "gate" =>
               lpc[t] = "gate" /\ made'[t] = made[t] /\ made[t].event \notin InMemory',
           \A t \in Loggers : lpc'[t] = "force" /\ made'[t].event \notin InMemory' =>
               /\ made'[t].event = made[t].event
               /\ lpc[t] \in {"gate", "force"} /\ made[t].event \notin InMemory
    PROVE  Stuck'
<1>1. Signatures' = Signatures
  BY DEF Signatures, Signed
<1>2. Sticks => Sticks'
  BY DEF Sticks
<1> QED BY <1>1, <1>2 DEF Stuck

LEMMA StuckKept ==
    ASSUME NEW only, Loggers = {only}, NEW sole, Exporters = {sole},
           SigTypes, FreshIds, Stuck, [DbNext]_dbVars
    PROVE  Stuck'
<1>1. ASSUME NEW t \in Loggers, Log(t) PROVE Stuck'
  <2>1. /\ logged' = logged + 1 /\ logged \in Nat /\ Loggers = {t}
        /\ made'[t].event = logged' /\ logged' \notin 1..logged
    BY <1>1 DEF Log, SigTypes
  <2>2. /\ UNCHANGED <<local, global, sig, epc, shot, exported, cut>>
        /\ lpc'[t] = "gate"
    BY <1>1 DEF Log, SigTypes, exporters
  <2>3. InMemory' = InMemory /\ Disk' = Disk
    BY <2>2 DEF InMemory, Disk
  <2>4. \A e \in 1..logged : Signed(e)' <=> Signed(e)
    BY <1>1, <2>1, SignatureAssumption DEF Log, SigTypes, Signed, Events
  <2>5. \A x \in Exporters : Elements(shot[x]) \subseteq 1..logged
    BY ElementOfSeq, LenProperties DEF SigTypes, Elements
  <2>6. exported \subseteq 1..logged /\ InMemory \subseteq 1..logged
    BY DEF SigTypes, InMemory
  <2>7. \A e \in 1..logged : e \in Signatures => e \in Signatures'
    BY <2>4 DEF Signatures
  <2>8. \A x \in Exporters : Elements(shot'[x]) = Elements(shot[x])
    BY <2>2
  <2>9. exported' \subseteq Signatures'
    BY <2>2, <2>6, <2>7 DEF Stuck
  <2>10. \A x \in Exporters : Elements(shot'[x]) \subseteq Signatures'
    BY <2>5, <2>7, <2>8 DEF Stuck
  <2>11. /\ made'[t].event \notin exported' /\ made'[t].event \notin InMemory'
         /\ \A x \in Exporters : made'[t].event \notin Elements(shot'[x])
    BY <2>1, <2>2, <2>3, <2>5, <2>6, <2>8
  <2>12. \A x \in Exporters : epc'[x] # "idle" => exported' \cap InMemory' \subseteq Elements(shot'[x])
    BY <2>2, <2>3, <2>8 DEF Stuck
  <2>13. ~cut' /\ (\A x \in Exporters : epc'[x] # "write") => Sticks'
    BY <2>2, <2>3 DEF Stuck, Sticks
  <2>14. \A u \in Loggers : u = t
    BY <2>1
  <2>15. \A x \in Exporters : Elements(shot[x])' = Elements(shot'[x])
    BY DEF Elements
  <2> QED BY <2>9, <2>10, <2>11, <2>12, <2>13, <2>14, <2>15 DEF Stuck
<1>2. ASSUME NEW t \in Loggers, Write(t) PROVE Stuck'
  <2> DEFINE r == [id |-> record_id, event |-> made[t].event]
  <2>1. local' \subseteq local \cup {r}
    <3>1. CASE local' = local
      BY <3>1
    <3>2. CASE local' \in Inserted(local, r, MaxPerScope)
      <4>1. IsFiniteSet(local)
        BY DEF SigTypes
      <4> HIDE DEF r
      <4> QED BY <3>2, <4>1, InsertedFacts
    <3> QED BY <1>2, <3>1, <3>2 DEF Write
  <2>2. /\ UNCHANGED <<grade, epc, shot, exported, cut, sig, global>> /\ Loggers = {t}
        /\ lpc[t] = "gate" /\ lpc'[t] # "gate" /\ made'[t].event = made[t].event
    BY <1>2 DEF Write, SigTypes, exporters
  <2>3. made[t].event \notin InMemory /\ made[t].event \notin exported
    BY <2>2 DEF Stuck
  <2>4. InMemory' \subseteq InMemory \cup {made[t].event}
    BY <2>1, <2>2 DEF InMemory
  <2>5. Disk' = Disk
    BY <2>2 DEF Disk
  <2> HIDE DEF r
  <2> QED BY <2>2, <2>3, <2>4, <2>5, StaysStuck
<1>3. ASSUME NEW t \in Loggers, WriteGlobal(t) PROVE Stuck'
  <2>1. global' \subseteq global \cup {made[t]}
    BY <1>3, InsertedFacts DEF WriteGlobal, SigTypes
  <2>2. /\ UNCHANGED <<grade, epc, shot, exported, cut, sig, local>> /\ Loggers = {t}
        /\ lpc[t] = "force" /\ lpc'[t] = "queue"
    BY <1>3 DEF WriteGlobal, SigTypes, exporters
  <2>3. InMemory' \subseteq InMemory \cup {made[t].event}
    BY <2>1, <2>2 DEF InMemory
  <2>4. exported \cap InMemory' \subseteq InMemory
    BY <2>2, <2>3 DEF Stuck
  <2>5. Disk' = Disk
    BY <2>2 DEF Disk
  <2> QED BY <2>2, <2>4, <2>5, StaysStuck
<1>4. ASSUME NEW t \in Loggers, Enqueue(t) PROVE Stuck'
  <2>1. /\ UNCHANGED <<grade, epc, shot, exported, cut, sig, local, global>> /\ Loggers = {t}
        /\ lpc'[t] = "sweep"
    BY <1>4 DEF Enqueue, SigTypes, exporters, memory
  <2>2. InMemory' = InMemory /\ Disk' = Disk
    BY <2>1 DEF InMemory, Disk
  <2> QED BY <2>1, <2>2, StaysStuck
<1>5. ASSUME NEW t \in Loggers, SweepScopes(t) PROVE Stuck'
  <2>1. /\ UNCHANGED <<grade, epc, shot, exported, cut, sig>> /\ Loggers = {t}
        /\ lpc'[t] = "idle" /\ local' \subseteq local /\ global' \subseteq global
    BY <1>5 DEF SweepScopes, SigTypes, exporters
  <2>2. InMemory' \subseteq InMemory /\ Disk' = Disk
    BY <2>1 DEF InMemory, Disk
  <2> QED BY <2>1, <2>2, StaysStuck
<1>6. CASE TakeBatch \/ AppendLog \/ FlushFails
  <2>1. UNCHANGED <<grade, epc, shot, exported, cut, sig, local, global, lpc, made>>
    BY <1>6 DEF TakeBatch, AppendLog, FlushFails, memory, loggers, exporters
  <2>2. InMemory' = InMemory /\ Disk' = Disk
    BY <2>1 DEF InMemory, Disk
  <2>3. \A t \in Loggers : lpc[t] = "gate" => made[t].event \notin InMemory
    BY DEF Stuck
  <2> QED BY <2>1, <2>2, <2>3, StaysStuck
<1>7. CASE AppendSignatures
  <2>1. UNCHANGED <<grade, epc, shot, exported, cut, local, global, lpc, made>>
    BY <1>7 DEF AppendSignatures, memory, loggers, exporters
  <2>2. InMemory' = InMemory
    BY <2>1 DEF InMemory
  <2>3. Disk \subseteq Disk'
    <3> DEFINE at == {i \in DOMAIN batch : Signed(batch[i])}
               S == 1..logged
    <3>1. batch \in Seq(S) /\ sig \in Seq(S) /\ at \subseteq DOMAIN batch
      BY DEF SigTypes
    <3>2. Picked(batch, at) \in Seq({batch[i] : i \in at})
      <4> HIDE DEF at, S
      <4> QED BY <3>1, PickedFacts
    <3>3. PICK torn \in IF faults = 0 THEN {0} ELSE 0..1 :
                 sig' = sig \o SubSeq(Picked(batch, at), 1 + torn, Len(Picked(batch, at)))
      BY <1>7 DEF AppendSignatures
    <3> DEFINE tail == SubSeq(Picked(batch, at), 1 + torn, Len(Picked(batch, at)))
    <3>4. tail \in Seq({batch[i] : i \in at})
      <4> HIDE DEF at, S
      <4> QED BY <3>2, PieceIsSeq, LenProperties
    <3>5. sig' = sig \o tail
      BY <3>3
    <3> HIDE DEF at, S, tail
    <3>6. Len(sig) \in Nat /\ DOMAIN sig = 1..Len(sig) /\ Len(tail) \in Nat
      BY <3>1, <3>4, LenProperties
    <3>7. DOMAIN sig' = 1..(Len(sig) + Len(tail)) /\ \A i \in 1..Len(sig) : sig'[i] = sig[i]
      BY <3>1, <3>4, <3>5, <3>6
    <3>8. DOMAIN sig \subseteq DOMAIN sig'
      BY <3>6, <3>7
    <3> QED BY <3>6, <3>7, <3>8 DEF Disk, Elements
  <2>4. \A t \in Loggers : lpc[t] = "gate" => made[t].event \notin InMemory
    BY DEF Stuck
  <2> QED BY <2>1, <2>2, <2>3, <2>4, StaysStuck
<1>8. ASSUME NEW x \in Exporters, Collect(x) PROVE Stuck'
  <2>1. PICK c \in SUBSET AllRecords :
          LET signatures == {r \in c : Signed(r.event)}
          IN  /\ Firsts(c)
              /\ \E order \in Bijection(1..Cardinality(signatures), signatures) :
                   shot' = [shot EXCEPT ![x] = [i \in DOMAIN order |-> order[i].event]]
    BY <1>8 DEF Collect
  <2> DEFINE signatures == {r \in c : Signed(r.event)}
  <2>2. PICK order \in Bijection(1..Cardinality(signatures), signatures) :
               shot' = [shot EXCEPT ![x] = [i \in DOMAIN order |-> order[i].event]]
    BY <2>1
  <2>3. /\ UNCHANGED <<grade, exported, cut, sig, local, global, lpc, made>> /\ Exporters = {x}
        /\ epc[x] = "idle" /\ epc'[x] = "open"
    BY <1>8 DEF Collect, SigTypes, memory, loggers
  <2>4. /\ order \in [1..Cardinality(signatures) -> signatures]
        /\ \A r \in signatures : \E i \in 1..Cardinality(signatures) : order[i] = r
    BY <2>2 DEF Bijection, Injection, Surjection
  <2>5. shot'[x] = [i \in DOMAIN order |-> order[i].event]
    BY <2>2 DEF SigTypes
  <2>6. Elements(shot'[x]) = {r.event : r \in signatures}
    <3> HIDE DEF signatures
    <3> QED BY <2>4, <2>5 DEF Elements
  <2>7. \A r \in AllRecords : r.event \in Events
    BY SignatureAssumption DEF AllRecords, SigTypes, Events
  <2>8. Elements(shot'[x]) \subseteq InMemory \cap Signatures
    BY <2>6, <2>7 DEF InMemory, Signatures, AllRecords
  <2>9. InMemory \cap Signatures \subseteq Elements(shot'[x])
    <3> SUFFICES ASSUME NEW e \in InMemory, Signed(e) PROVE e \in Elements(shot'[x])
      BY DEF Signatures
    <3>1. PICK r \in local \cup global : r.event = e
      BY DEF InMemory
    <3>2. PICK q \in c : q.id = r.id
      BY <2>1, <3>1 DEF Firsts, AllRecords
    <3>3. q.event = r.event
      BY <3>1, <3>2 DEF AllRecords, FreshIds, IdsAreDistinct
    <3>4. q \in signatures
      BY <3>1, <3>2, <3>3
    <3> QED BY <2>6, <3>1, <3>3, <3>4
  <2> HIDE DEF signatures
  <2>10. InMemory' = InMemory /\ Disk' = Disk /\ Signatures' = Signatures
    BY <2>3 DEF InMemory, Disk, Signatures, Signed
  <2>11. Elements(shot[x])' = Elements(shot'[x])
    BY DEF Elements
  <2>12. \A y \in Exporters : y = x
    BY <2>3
  <2>13. \A u \in Loggers : made'[u].event \notin InMemory' => made'[u].event \notin Elements(shot'[x])
    BY <2>8, <2>10
  <2>14. ~cut' => Sticks'
    BY <2>3, <2>10, <2>12 DEF Stuck, Sticks
  <2> QED BY <2>3, <2>8, <2>9, <2>10, <2>11, <2>12, <2>13, <2>14 DEF Stuck
<1>9. ASSUME NEW x \in Exporters, Open(x) PROVE Stuck'
  <2>1. /\ UNCHANGED <<grade, shot, exported, local, global, lpc, made>> /\ Exporters = {x}
        /\ epc[x] = "open" /\ epc'[x] = "write"
    BY <1>9 DEF Open, SigTypes, memory, loggers
  <2>2. InMemory' = InMemory /\ Signatures' = Signatures
    BY <2>1 DEF InMemory, Signatures, Signed
  <2> QED BY <2>1, <2>2 DEF Stuck
<1>10. ASSUME NEW x \in Exporters, Close(x) PROVE Stuck'
  <2>1. /\ UNCHANGED <<grade, local, global, lpc, made>> /\ Exporters = {x}
        /\ epc[x] = "write" /\ epc'[x] = "idle" /\ shot'[x] = <<>>
        /\ exported' = exported \cup Elements(shot[x])
    BY <1>10 DEF Close, SigTypes, memory, loggers, Elements
  <2>2. InMemory' = InMemory /\ Signatures' = Signatures
    BY <2>1 DEF InMemory, Signatures, Signed
  <2>3. Elements(shot[x]) \subseteq Disk'
    <3> DEFINE S == 1..logged
    <3>1. PICK torn \in 0..1 :
               sig' = shot[x] \o SubSeq(sig, Len(shot[x]) + 1 + torn, Len(sig))
      BY <1>10 DEF Close
    <3> DEFINE rest == SubSeq(sig, Len(shot[x]) + 1 + torn, Len(sig))
    <3>2. shot[x] \in Seq(S) /\ sig \in Seq(S) /\ Len(shot[x]) \in Nat /\ Len(sig) \in Nat
      BY <1>10, LenProperties DEF SigTypes
    <3>3. rest \in Seq(S)
      <4> HIDE DEF S
      <4> QED BY <3>2, PieceIsSeq
    <3>4. sig' = shot[x] \o rest
      BY <3>1
    <3> HIDE DEF S, rest
    <3>5. DOMAIN shot[x] = 1..Len(shot[x]) /\ Len(rest) \in Nat
      BY <3>2, <3>3, LenProperties
    <3>6. DOMAIN sig' = 1..(Len(shot[x]) + Len(rest)) /\ \A i \in 1..Len(shot[x]) : sig'[i] = shot[x][i]
      BY <3>2, <3>3, <3>4, <3>5
    <3>7. DOMAIN shot[x] \subseteq DOMAIN sig'
      BY <3>2, <3>5, <3>6
    <3> QED BY <3>5, <3>6, <3>7 DEF Disk, Elements
  <2>4. exported \cap InMemory \subseteq Elements(shot[x])
    BY <2>1 DEF Stuck
  <2>5. Sticks'
    BY <2>1, <2>2, <2>3, <2>4 DEF Sticks
  <2>6. Elements(shot'[x]) = {} /\ Elements(shot[x])' = Elements(shot'[x])
    BY <2>1 DEF Elements
  <2>7. exported' \subseteq Signatures'
    BY <2>1, <2>2 DEF Stuck
  <2>8. \A u \in Loggers : lpc'[u] \in {"gate", "force"} /\ made'[u].event \notin InMemory' =>
            made'[u].event \notin exported'
    BY <2>1, <2>2 DEF Stuck
  <2>9. \A u \in Loggers : lpc'[u] = "gate" => made'[u].event \notin InMemory'
    BY <2>1, <2>2 DEF Stuck
  <2>10. \A y \in Exporters : y = x
    BY <2>1
  <2> QED BY <2>1, <2>5, <2>6, <2>7, <2>8, <2>9, <2>10 DEF Stuck
<1>13. ASSUME NEW x \in Exporters, ExportFails(x) PROVE Stuck'
  <2>1. /\ UNCHANGED <<grade, exported, local, global, lpc, made>> /\ Exporters = {x}
        /\ epc'[x] = "idle" /\ shot'[x] = <<>>
        /\ cut' = TRUE \/ (epc[x] = "open" /\ UNCHANGED <<sig, cut>>)
    BY <1>13 DEF ExportFails, SigTypes, memory, loggers
  <2>2. InMemory' = InMemory /\ Signatures' = Signatures
    BY <2>1 DEF InMemory, Signatures, Signed
  <2>3. Elements(shot[x])' = {}
    BY <2>1 DEF Elements
  <2>4. \A y \in Exporters : y = x
    BY <2>1
  <2>5. ~cut' => Sticks'
    BY <2>1, <2>2, <2>4 DEF Stuck, Sticks, Disk
  <2> QED BY <2>1, <2>2, <2>3, <2>4, <2>5 DEF Stuck
<1>11. CASE Reopen
  <2>1. /\ UNCHANGED <<grade, sig, exported>>
        /\ local' = {} /\ \A t \in Loggers : lpc'[t] = "idle"
        /\ \A x \in Exporters : epc'[x] = "idle" /\ shot'[x] = <<>>
    BY <1>11 DEF Reopen
  <2>2. \A r \in global' : \E i \in 1..Len(sig) : r = [id |-> i, event |-> sig[i]]
    BY <1>11, GlobalScopesFacts DEF Reopen, SigTypes
  <2>3. InMemory' \subseteq Disk'
    <3>1. DOMAIN sig = 1..Len(sig)
      BY LenProperties DEF SigTypes
    <3>2. \A r \in global' : \E i \in DOMAIN sig : r.event = sig[i]
      BY <2>2, <3>1
    <3> QED BY <2>1, <3>2 DEF InMemory, Disk, Elements
  <2>4. \A x \in Exporters : Elements(shot[x])' = {}
    BY <2>1 DEF Elements
  <2>5. exported' \subseteq Signatures'
    BY <2>1 DEF Stuck, Signatures, Signed
  <2> QED BY <2>1, <2>3, <2>4, <2>5 DEF Stuck, Sticks
<1>12. CASE UNCHANGED dbVars
  <2>1. UNCHANGED <<grade, epc, shot, exported, cut, sig, local, global, lpc, made>>
    BY <1>12 DEF dbVars
  <2>2. InMemory' = InMemory /\ Disk' = Disk
    BY <2>1 DEF InMemory, Disk
  <2>3. \A t \in Loggers : lpc[t] = "gate" => made[t].event \notin InMemory
    BY DEF Stuck
  <2> QED BY <2>1, <2>2, <2>3, StaysStuck
<1> QED BY <1>1, <1>2, <1>3, <1>4, <1>5, <1>6, <1>7, <1>8, <1>9, <1>10, <1>11, <1>12,
           <1>13
        DEF DbNext, Logger, Writer, Exporter

\* With one logging and one exporting thread, what an export has written stays on
\* disk for as long as it is remembered, except while it is being rewritten and
\* after an export that broke off in the file: neither the late lines of the
\* writer, nor its failures, nor an export that cannot open the file, nor a restart
\* between any two steps takes it away, and the next export that succeeds, or the
\* next start, makes it true again.
THEOREM ExportsAreNotUndone ==
    ASSUME NEW only, Loggers = {only}, NEW sole, Exporters = {sole}
    PROVE  DbSpec => []ExportsStick
<1>1. SigTypes /\ FreshIds /\ Stuck /\ [DbNext]_dbVars => (SigTypes /\ FreshIds /\ Stuck)'
  BY SigTypesKept, FreshIdsKept, StuckKept
<1>2. DbInit => SigTypes /\ FreshIds /\ Stuck
  BY SigTypesInitial, FreshIdsInitial, StuckInitial
<1> QED BY <1>1, <1>2, StuckMeans, PTL DEF DbSpec

-----------------------------------------------------------------------------
(* The vector graph store.                                                   *)

RecordType == [id : Nat, embedding : Embeddings \cup {NoEmbedding}, confidence : Confidences,
               seen : Nat]

Places == {"idle", "gather", "install", "clean", "compare", "weigh", "expand", "decided",
           "append", "evict", "renumber", "logged"}

GraphTypes ==
    /\ records \in Seq(RecordType)
    /\ matrix \in Seq(Embeddings \cup {NoEmbedding})
    /\ inserted \in Nat
    /\ gpc \in [Threads -> Places]
    /\ emb \in [Threads -> Embeddings \cup {NoEmbedding}]
    /\ rec \in [Threads -> RecordType]
    /\ rows \in [Threads -> Seq(Embeddings \cup {NoEmbedding})]
    /\ kept \in [Threads -> Seq(Nat)]
    /\ DOMAIN valid = Threads
    /\ covered \in Nat

\* A function from the first n numbers is a sequence.
LEMMA IsSequence ==
    ASSUME NEW S, NEW n \in Nat, NEW f \in [1..n -> S]
    PROVE  f \in Seq(S) /\ Len(f) = n /\ DOMAIN f = 1..n
BY SeqDef, LenProperties

\* The first n numbers in order are the first n numbers.
LEMMA AscendingInterval ==
    ASSUME NEW n \in Nat
    PROVE  /\ DOMAIN Ascending(1..n) = 1..n
           /\ \A i \in 1..n : Ascending(1..n)[i] = i
<1> DEFINE s == 1..n
           before == {p \in s \X s : p[1] < p[2]}
<1>1. Cardinality(s) = n
  BY 1 \in Int, n \in Int, FS_Interval
<1>2. ASSUME NEW x \in s PROVE Cardinality({y \in s : <<y, x>> \in before}) = x - 1
  <2>1. {y \in s : <<y, x>> \in before} = 1..(x - 1)
    OBVIOUS
  <2>2. Cardinality(1..(x - 1)) = x - 1
    BY 1 \in Int, x - 1 \in Int, FS_Interval
  <2> QED BY <2>1, <2>2
<1>3. Ascending(s) = [i \in 1..Cardinality(s) |->
                         CHOOSE x \in s : Cardinality({y \in s : <<y, x>> \in before}) = i - 1]
  BY DEF Ascending, InOrder
<1>4. ASSUME NEW i \in 1..n PROVE Ascending(s)[i] = i
  <2> DEFINE P(x) == Cardinality({y \in s : <<y, x>> \in before}) = i - 1
  <2>1. Ascending(s)[i] = CHOOSE x \in s : P(x)
    BY <1>1, <1>3
  <2>2. \A x \in s : P(x) <=> x = i
    <3>1. \A x \in s : P(x) <=> x - 1 = i - 1
      BY <1>2
    <3> HIDE DEF P
    <3> QED BY <3>1
  <2> HIDE DEF P
  <2>3. i \in s /\ P(i)
    BY <2>2
  <2> HIDE DEF s
  <2>4. (CHOOSE x \in s : P(x)) \in s /\ P(CHOOSE x \in s : P(x))
    BY <2>3
  <2> QED BY <2>1, <2>2, <2>4
<1>5. DOMAIN Ascending(s) = 1..n
  BY <1>1, <1>3
<1> QED BY <1>4, <1>5

\* The unexpired positions are finitely many numbers.
LEMMA FreshIsFinite ==
    ASSUME records \in Seq(RecordType)
    PROVE  /\ Fresh \subseteq DOMAIN records /\ Fresh \subseteq Nat /\ IsFiniteSet(Fresh)
           /\ DOMAIN records = 1..Len(records) /\ Len(records) \in Nat
<1>1. DOMAIN records = 1..Len(records) /\ Len(records) \in Nat
  BY LenProperties
<1>2. IsFiniteSet(1..Len(records))
  BY <1>1, 1 \in Int, Len(records) \in Int, FS_Interval
<1>3. Fresh \in SUBSET (1..Len(records))
  BY <1>1 DEF Fresh
<1>4. IsFiniteSet(Fresh)
  BY <1>2, <1>3, FS_Subset
<1> QED BY <1>1, <1>3, <1>4

\* There are no more of them than records.
LEMMA FreshFit ==
    ASSUME records \in Seq(RecordType)
    PROVE  /\ Cardinality(Fresh) \in Nat /\ Cardinality(Fresh) <= Len(records)
           /\ Len(records) \in Nat
<1>1. DOMAIN records = 1..Len(records) /\ Len(records) \in Nat
  BY LenProperties
<1>2. IsFiniteSet(1..Len(records)) /\ Cardinality(1..Len(records)) = Len(records)
  BY <1>1, 1 \in Int, Len(records) \in Int, FS_Interval
<1>3. Fresh \in SUBSET (1..Len(records))
  BY <1>1 DEF Fresh
<1>4. Cardinality(Fresh) <= Len(records) /\ IsFiniteSet(Fresh)
  <2> DEFINE all == 1..Len(records)
  <2>1. IsFiniteSet(all) /\ Cardinality(all) = Len(records) /\ Fresh \in SUBSET all
    BY <1>2, <1>3
  <2> HIDE DEF all
  <2> QED BY <2>1, FS_Subset
<1> QED BY <1>1, <1>4, FS_CardinalityType

\* Positions without repetition.
Distinct(positions) ==
    \A a, b \in DOMAIN positions : a # b => positions[a] # positions[b]

\* A sweep keeps unexpired records, once each.
LEMMA SweepFacts ==
    ASSUME records \in Seq(RecordType)
    PROVE  /\ Ascending(Fresh) \in Seq(Fresh) /\ Distinct(Ascending(Fresh))
           /\ Len(Ascending(Fresh)) = Cardinality(Fresh)
<1> DEFINE f == Ascending(Fresh) n == Cardinality(Fresh)
<1>1. /\ n \in Nat /\ f \in [1..n -> Fresh]
      /\ \A x \in Fresh : \E i \in 1..n : f[i] = x
      /\ \A i, j \in 1..n : i < j => f[i] < f[j]
  BY FreshIsFinite, AscendingFacts
<1> HIDE DEF f, n
<1>2. f \in Seq(Fresh) /\ DOMAIN f = 1..n /\ Len(f) = n
  BY <1>1, IsSequence
<1>3. ASSUME NEW a \in 1..n, NEW b \in 1..n, a # b PROVE f[a] # f[b]
  <2>1. f[a] \in Nat /\ f[b] \in Nat
    BY <1>1, FreshIsFinite
  <2>2. a < b \/ b < a
    BY <1>1, <1>3
  <2> QED BY <1>1, <2>1, <2>2
<1>4. f \in Seq(Fresh) /\ Distinct(f) /\ Len(f) = n
  BY <1>2, <1>3 DEF Distinct
<1> QED BY <1>4 DEF f, n

\* An eviction keeps unexpired records, once each, and frees a place if the store
\* was beyond its limit.
LEMMA SurvivorsFacts ==
    ASSUME records \in Seq(RecordType)
    PROVE  /\ Survivors \in Seq(Fresh) /\ Distinct(Survivors)
           /\ Len(Survivors) <= Limit \/ Len(Survivors) < Len(records)
<1>1. CASE ~(Cardinality(Fresh) > MaxSize)
  <2>1. Survivors = Ascending(Fresh) /\ Len(Survivors) = Cardinality(Fresh)
    BY <1>1, SweepFacts DEF Survivors
  <2>2. Cardinality(Fresh) <= MaxSize
    BY <1>1, FreshFit, StoreAssumption
  <2> QED BY <2>1, <2>2, SweepFacts, FreshFit, StoreAssumption DEF Limit
<1>2. CASE Cardinality(Fresh) > MaxSize
  <2> DEFINE before == {p \in Fresh \X Fresh : LessConfident(p[1], p[2])}
             f == InOrder(Fresh, before)
             n == Cardinality(Fresh)
             q == n \div 4
  <2>1. \A i \in Fresh : i \in Nat /\ records[i].confidence \in Nat
    <3>1. Fresh \subseteq 1..Len(records)
      BY FreshIsFinite
    <3>2. \A i \in Fresh : records[i] \in RecordType
      BY <3>1, ElementOfSeq
    <3> QED BY <3>2, FreshIsFinite DEF RecordType, Confidences
  <2>2. \A i, j \in Fresh : <<i, j>> \in before <=> LessConfident(i, j)
    OBVIOUS
  <2>3. Orders(before, Fresh)
    <3> HIDE DEF before
    <3>1. \A i \in Fresh : ~LessConfident(i, i)
      BY <2>1 DEF LessConfident
    <3>2. \A i, j, k \in Fresh : LessConfident(i, j) /\ LessConfident(j, k) => LessConfident(i, k)
      BY <2>1 DEF LessConfident
    <3>3. \A i, j \in Fresh : i # j => LessConfident(i, j) \/ LessConfident(j, i)
      BY <2>1 DEF LessConfident
    <3> QED BY <2>2, <3>1, <3>2, <3>3 DEF Orders
  <2>4. /\ n \in Nat /\ f \in [1..n -> Fresh]
        /\ \A x \in Fresh : \E i \in 1..n : f[i] = x
        /\ \A i, j \in 1..n : i < j => f[i] # f[j] /\ <<f[i], f[j]>> \in before
    <3> HIDE DEF before
    <3> QED BY <2>3, FreshIsFinite, InOrderFacts
  <2>5. Survivors = SubSeq(f, q + 1, n)
    BY <1>2 DEF Survivors, ByConfidence
  <2>6. q \in Nat /\ q <= n
    <3> HIDE DEF n
    <3> QED BY <2>4
  <2> HIDE DEF f, n, q, before
  <2>7. f \in Seq(Fresh) /\ Len(f) = n /\ DOMAIN f = 1..n
    BY <2>4, IsSequence
  <2>8. \A i \in (q + 1)..n : i \in 1..n
    BY <2>4, <2>6
  <2>9. /\ Survivors \in Seq(Fresh) /\ DOMAIN Survivors = 1..(n - q)
        /\ \A k \in 1..(n - q) : Survivors[k] = f[q + k]
    <3>1. Survivors \in Seq(Fresh)
      BY <2>4, <2>5, <2>6, <2>7, <2>8, SubSeqProperties
    <3>2. Survivors = [k \in 1..(n - q) |-> f[q + k]]
      BY <2>4, <2>5, <2>6, <2>7
    <3> QED BY <3>1, <3>2
  <2>10. ASSUME NEW a \in 1..(n - q), NEW b \in 1..(n - q), a # b PROVE Survivors[a] # Survivors[b]
    <3>1. q + a \in 1..n /\ q + b \in 1..n /\ (q + a < q + b \/ q + b < q + a)
      BY <2>4, <2>6, <2>10
    <3>2. f[q + a] # f[q + b]
      BY <2>4, <3>1
    <3>3. Survivors[a] = f[q + a] /\ Survivors[b] = f[q + b]
      BY <2>9
    <3> QED BY <3>2, <3>3
  <2>11. n <= Len(records)
    BY FreshFit DEF n
  <2>12. n - q <= 3 \/ n - q < n
    BY <2>4 DEF q
  <2>13. Len(Survivors) = n - q /\ Len(records) \in Nat /\ Limit \in Nat /\ 3 <= Limit
    <3>1. DOMAIN Survivors = 1..Len(Survivors) /\ Len(Survivors) \in Nat /\ Len(records) \in Nat
      BY <2>9, LenProperties
    <3>2. n - q \in Nat
      BY <2>4, <2>6
    <3>3. Len(Survivors) = n - q
      BY <2>9, <3>1, <3>2
    <3> QED BY <3>1, <3>3, StoreAssumption DEF Limit
  <2> QED BY <2>4, <2>6, <2>9, <2>10, <2>11, <2>12, <2>13 DEF Distinct
<1> QED BY <1>1, <1>2

\* What a removal does to the records.
LEMMA KeepFacts ==
    ASSUME records \in Seq(RecordType), NEW t \in Threads, NEW positions \in Seq(Fresh),
           Keep(t, positions)
    PROVE  /\ records' \in Seq(RecordType) /\ Len(records') = Len(positions)
           /\ DOMAIN records' = DOMAIN positions
           /\ \A k \in DOMAIN positions :
                  positions[k] \in DOMAIN records /\ records'[k] = records[positions[k]]
           /\ positions \in Seq(Nat)
<1>1. DOMAIN positions = 1..Len(positions) /\ Len(positions) \in Nat
  BY LenProperties
<1>2. \A k \in DOMAIN positions : positions[k] \in Fresh
  BY <1>1, ElementOfSeq
<1>3. \A k \in DOMAIN positions : positions[k] \in DOMAIN records /\ records[positions[k]] \in RecordType
  BY <1>2, FreshIsFinite, ElementOfSeq
<1>4. records' = [k \in DOMAIN positions |-> records[positions[k]]]
  BY DEF Keep
<1>5. records' \in [1..Len(positions) -> RecordType]
  BY <1>1, <1>3, <1>4
<1>6. records' \in Seq(RecordType) /\ Len(records') = Len(positions) /\ DOMAIN records' = 1..Len(positions)
  BY <1>1, <1>5, IsSequence
<1>7. positions \in Seq(Nat)
  BY FreshIsFinite, SeqDef
<1> QED BY <1>1, <1>3, <1>4, <1>6, <1>7

LEMMA EmbeddingRowsType ==
    ASSUME records \in Seq(RecordType)
    PROVE  EmbeddingRows \in Seq(Embeddings \cup {NoEmbedding})
<1> DEFINE at == {i \in DOMAIN records : records[i].embedding # NoEmbedding}
           has == Picked(records, at)
<1>1. has \in Seq({records[i] : i \in at})
  <2>1. at \subseteq DOMAIN records
    OBVIOUS
  <2> HIDE DEF at
  <2> QED BY <2>1, PickedFacts
<1>2. {records[i] : i \in at} \subseteq RecordType
  BY ElementOfSeq, LenProperties
<1>3. EmbeddingRows = [i \in DOMAIN has |-> has[i].embedding]
  BY DEF EmbeddingRows
<1> HIDE DEF has, at
<1>4. DOMAIN has = 1..Len(has) /\ Len(has) \in Nat /\ \A i \in DOMAIN has : has[i] \in RecordType
  BY <1>1, <1>2, LenProperties, ElementOfSeq
<1>5. EmbeddingRows \in [1..Len(has) -> Embeddings \cup {NoEmbedding}]
  BY <1>3, <1>4 DEF RecordType
<1> QED BY <1>4, <1>5, IsSequence

LEMMA GraphTypesInitial == GraphInit => GraphTypes
  BY DEF GraphInit, GraphTypes, RecordType, NoRecord, Confidences, Places

LEMMA GraphTypesKept == GraphTypes /\ [GraphNext]_graphVars => GraphTypes'
<1> SUFFICES ASSUME GraphTypes, [GraphNext]_graphVars PROVE GraphTypes'
  OBVIOUS
<1>e. <<>> \in Seq(Nat) /\ <<>> \in Seq(Embeddings \cup {NoEmbedding})
  OBVIOUS
<1>1. ASSUME NEW t \in Threads, NEW label \in Places, Jump(t, label)
      PROVE  gpc' \in [Threads -> Places]
  BY <1>1 DEF Jump, GraphTypes
<1>2. ASSUME NEW t \in Threads, NEW e \in Embeddings, Search(t, e) PROVE GraphTypes'
  <2>1. gpc' \in [Threads -> Places]
    BY <1>2 DEF Search, Jump, GraphTypes, Places
  <2> QED BY <1>2, <2>1 DEF Search, GraphTypes, history
<1>3. ASSUME NEW t \in Threads, Gather(t) PROVE GraphTypes'
  <2>1. gpc' \in [Threads -> Places]
    BY <1>1, <1>3 DEF Gather, Places
  <2> QED BY <1>3, <2>1, EmbeddingRowsType DEF Gather, GraphTypes, history
<1>4. ASSUME NEW t \in Threads, Install(t) PROVE GraphTypes'
  <2>1. gpc' \in [Threads -> Places]
    BY <1>1, <1>4 DEF Install, Places
  <2> QED BY <1>4, <2>1 DEF Install, GraphTypes, locals
<1>5. ASSUME NEW t \in Threads, Clean(t) PROVE GraphTypes'
  <2>1. gpc' \in [Threads -> Places]
    BY <1>1, <1>5 DEF Clean, Places
  <2> QED BY <1>5, <2>1 DEF Clean, GraphTypes, locals, history
<1>6. ASSUME NEW t \in Threads, Compare(t) \/ Weigh(t) \/ Expand(t) PROVE GraphTypes'
  <2>1. gpc' \in [Threads -> Places]
    BY <1>6 DEF Compare, Weigh, Expand, Leave, Raise, Jump, GraphTypes, Places
  <2>2. rows' \in [Threads -> Seq(Embeddings \cup {NoEmbedding})] /\ DOMAIN valid' = Threads
    BY <1>6, <1>e DEF Compare, Weigh, Expand, Leave, Raise, GraphTypes
  <2>3. UNCHANGED <<records, matrix, inserted, emb, rec, kept, covered>>
    BY <1>6 DEF Compare, Weigh, Expand, history
  <2> QED BY <2>1, <2>2, <2>3 DEF GraphTypes
<1>7. ASSUME NEW t \in Threads, Drop(t) \/ EndLog(t) PROVE GraphTypes'
  <2>1. gpc' \in [Threads -> Places]
    BY <1>1, <1>7 DEF Drop, EndLog, Places
  <2> QED BY <1>7, <2>1 DEF Drop, EndLog, GraphTypes, locals, history
<1>8. ASSUME NEW t \in Threads, NEW e \in Embeddings \cup {NoEmbedding}, NEW c \in Confidences,
             Link(t, e, c)
      PROVE  GraphTypes'
  <2>1. gpc' \in [Threads -> Places]
    BY <1>1, <1>8 DEF Link, Places
  <2>2. inserted' \in Nat
    BY <1>8 DEF Link, GraphTypes
  <2>3. rec' \in [Threads -> RecordType]
    BY <1>8, <2>2 DEF Link, GraphTypes, RecordType
  <2> QED BY <1>8, <2>1, <2>2, <2>3 DEF Link, GraphTypes
<1>9. ASSUME NEW t \in Threads, AppendRecord(t) PROVE GraphTypes'
  <2>1. gpc' \in [Threads -> Places]
    BY <1>9 DEF AppendRecord, Jump, GraphTypes, Places
  <2>2. records' \in Seq(RecordType)
    BY <1>9, AppendProperties DEF AppendRecord, GraphTypes
  <2>3. NoRecord \in RecordType
    BY DEF NoRecord, RecordType, Confidences
  <2> QED BY <1>9, <2>1, <2>2, <2>3 DEF AppendRecord, GraphTypes, history
<1>10. ASSUME NEW t \in Threads, NEW positions \in Seq(Fresh), Keep(t, positions),
              UNCHANGED <<matrix, dirty, edges, inserted, expired, emb, rec, rows, valid, raised>>
       PROVE  GraphTypes'
  <2>1. records' \in Seq(RecordType) /\ positions \in Seq(Nat)
    BY <1>10, KeepFacts DEF GraphTypes
  <2>2. gpc' \in [Threads -> Places]
    BY <1>1, <1>10 DEF Keep, Places
  <2>3. kept' \in [Threads -> Seq(Nat)]
    BY <1>10, <2>1 DEF Keep, GraphTypes
  <2> QED BY <1>10, <2>1, <2>2, <2>3 DEF GraphTypes, Keep
<1>11. ASSUME NEW t \in Threads, Evict(t) PROVE GraphTypes'
  BY <1>10, <1>11, SurvivorsFacts DEF Evict, GraphTypes
<1>12. ASSUME NEW t \in Threads, Sweep(t) PROVE GraphTypes'
  BY <1>10, <1>12, SweepFacts DEF Sweep, GraphTypes
<1>13. ASSUME NEW t \in Threads, Renumber(t) PROVE GraphTypes'
  <2>1. gpc' \in [Threads -> Places]
    BY <1>1, <1>13 DEF Renumber, Places
  <2> QED BY <1>13, <1>e, <2>1 DEF Renumber, GraphTypes, history
<1>14. CASE Age
  BY <1>14 DEF Age, GraphTypes, locals, history
<1>15. CASE UNCHANGED graphVars
  BY <1>15 DEF graphVars, GraphTypes
<1> QED BY <1>2, <1>3, <1>4, <1>5, <1>6, <1>7, <1>8, <1>9, <1>11, <1>12, <1>13, <1>14, <1>15
        DEF GraphNext, Step

\* Who is on its way to evict is finitely many threads; a step that sends one
\* there, or takes one from there, changes their number by one.
LEMMA EvictingCounted ==
    ASSUME GraphTypes
    PROVE  /\ IsFiniteSet(Evicting) /\ Cardinality(Evicting) \in Nat
           /\ Evicting' = Evicting => Cardinality(Evicting') = Cardinality(Evicting)
           /\ \A t \in Threads : t \notin Evicting /\ Evicting' = Evicting \cup {t} =>
                  Cardinality(Evicting') = Cardinality(Evicting) + 1
           /\ \A t \in Evicting : Evicting' = Evicting \ {t} =>
                  Cardinality(Evicting') = Cardinality(Evicting) - 1
<1>1. IsFiniteSet(Threads)
  BY StoreAssumption DEF Threads
<1>2. Evicting \in SUBSET Threads
  BY DEF Evicting
<1>3. IsFiniteSet(Evicting) /\ Cardinality(Evicting) \in Nat
  BY <1>1, <1>2, FS_Subset, FS_CardinalityType
<1>4. ASSUME NEW t, t \notin Evicting
      PROVE  Cardinality(Evicting \cup {t}) = Cardinality(Evicting) + 1
  BY <1>3, <1>4, FS_AddElement
<1>5. ASSUME NEW t \in Evicting
      PROVE  Cardinality(Evicting \ {t}) = Cardinality(Evicting) - 1
  BY <1>3, <1>5, FS_RemoveElement
<1> QED BY <1>3, <1>4, <1>5

\* A thread that goes to evict has appended one record; the one that has evicted
\* has freed a place, if the store was beyond its limit.
LEMMA LimitKept ==
    GraphTypes /\ WithinLimit /\ [GraphNext]_graphVars => WithinLimit'
<1> SUFFICES ASSUME GraphTypes, WithinLimit, [GraphNext]_graphVars PROVE WithinLimit'
  OBVIOUS
<1>l. Limit \in Nat /\ MaxSize \in Nat /\ MaxSize <= Limit /\ Limit' = Limit
  BY StoreAssumption DEF Limit
<1>n. Len(records) \in Nat /\ Cardinality(Evicting) \in Nat
  BY EvictingCounted, LenProperties DEF GraphTypes
<1>w. Len(records) <= Limit + Cardinality(Evicting)
  BY DEF WithinLimit
<1>1. ASSUME UNCHANGED records,
             \/ UNCHANGED gpc
             \/ \E t \in Threads, label \in Places \ {"evict"} :
                    gpc[t] # "evict" /\ Jump(t, label)
      PROVE  WithinLimit'
  <2>1. Evicting' = Evicting
    BY <1>1 DEF Evicting, Jump, GraphTypes
  <2> QED BY <1>1, <1>l, <1>w, <2>1, EvictingCounted DEF WithinLimit
<1>2. ASSUME NEW t \in Threads, AppendRecord(t) PROVE WithinLimit'
  <2>1. Len(records') = Len(records) + 1
    BY <1>2, AppendProperties DEF AppendRecord, GraphTypes
  <2>2. CASE Len(records) + 1 > MaxSize
    <3>1. t \notin Evicting /\ Evicting' = Evicting \cup {t}
      BY <1>2, <2>2 DEF AppendRecord, Jump, Evicting, GraphTypes
    <3>2. Cardinality(Evicting') = Cardinality(Evicting) + 1
      BY <3>1, EvictingCounted
    <3> QED BY <1>l, <1>n, <1>w, <2>1, <3>2 DEF WithinLimit
  <2>3. CASE ~(Len(records) + 1 > MaxSize)
    <3>1. Evicting' = Evicting
      BY <1>2, <2>3 DEF AppendRecord, Jump, Evicting, GraphTypes
    <3>2. Cardinality(Evicting') = Cardinality(Evicting)
      BY <3>1, EvictingCounted
    <3> QED BY <1>l, <1>n, <2>1, <2>3, <3>2 DEF WithinLimit
  <2> QED BY <2>2, <2>3
<1>3. ASSUME NEW t \in Threads, Evict(t) PROVE WithinLimit'
  <2>1. Survivors \in Seq(Fresh) /\ Keep(t, Survivors)
    BY <1>3, SurvivorsFacts DEF Evict, GraphTypes
  <2>2. Len(records') = Len(Survivors) /\ Len(Survivors) \in Nat
    BY <2>1, KeepFacts, LenProperties DEF GraphTypes
  <2>3. Len(Survivors) <= Limit \/ Len(Survivors) < Len(records)
    BY SurvivorsFacts DEF GraphTypes
  <2>4. t \in Evicting /\ Evicting' = Evicting \ {t}
    BY <1>3 DEF Evict, Keep, Jump, Evicting, GraphTypes
  <2>5. Cardinality(Evicting') = Cardinality(Evicting) - 1 /\ Cardinality(Evicting) >= 1
    <3>1. Cardinality(Evicting') = Cardinality(Evicting) - 1
      BY <2>4, EvictingCounted
    <3>2. Cardinality(Evicting) # 0
      BY <2>4, EvictingCounted, FS_EmptySet
    <3> QED BY <1>n, <3>1, <3>2
  <2> QED BY <1>l, <1>n, <1>w, <2>2, <2>3, <2>5 DEF WithinLimit
<1>4. ASSUME NEW t \in Threads, Sweep(t) PROVE WithinLimit'
  <2>1. Ascending(Fresh) \in Seq(Fresh) /\ Keep(t, Ascending(Fresh))
    BY <1>4, SweepFacts DEF Sweep, GraphTypes
  <2>2. Len(records') = Cardinality(Fresh)
    BY <2>1, KeepFacts, SweepFacts DEF GraphTypes
  <2>3. Evicting' = Evicting
    BY <1>4 DEF Sweep, Keep, Jump, Evicting, GraphTypes
  <2>4. Cardinality(Evicting') = Cardinality(Evicting)
    BY <2>3, EvictingCounted
  <2> QED BY <1>l, <1>n, <1>w, <2>2, <2>4, FreshFit DEF WithinLimit, GraphTypes
<1>5. ASSUME NEW t \in Threads, NEW e \in Embeddings, Search(t, e) PROVE WithinLimit'
  <2>1. PICK label \in Places \ {"evict"} : Jump(t, label)
    BY <1>5 DEF Search, Places
  <2> QED BY <1>1, <1>5, <2>1 DEF Search
<1>6. ASSUME NEW t \in Threads, Compare(t) \/ Weigh(t) \/ Expand(t) PROVE WithinLimit'
  <2>1. PICK label \in Places \ {"evict"} : Jump(t, label)
    BY <1>6 DEF Compare, Weigh, Expand, Leave, Raise, Places
  <2>2. UNCHANGED records /\ gpc[t] # "evict"
    BY <1>6 DEF Compare, Weigh, Expand
  <2> QED BY <1>1, <2>1, <2>2
<1>7. ASSUME NEW t \in Threads, Gather(t) \/ Install(t) \/ Clean(t) PROVE WithinLimit'
  <2>1. PICK label \in Places \ {"evict"} : Jump(t, label)
    BY <1>7 DEF Gather, Install, Clean, Places
  <2>2. UNCHANGED records /\ gpc[t] # "evict"
    BY <1>7 DEF Gather, Install, Clean
  <2> QED BY <1>1, <2>1, <2>2
<1>8. ASSUME NEW t \in Threads, Drop(t) \/ EndLog(t) \/ Renumber(t) PROVE WithinLimit'
  <2>1. PICK label \in Places \ {"evict"} : Jump(t, label)
    BY <1>8 DEF Drop, EndLog, Renumber, Places
  <2>2. UNCHANGED records /\ gpc[t] # "evict"
    BY <1>8 DEF Drop, EndLog, Renumber
  <2> QED BY <1>1, <2>1, <2>2
<1>9. ASSUME NEW t \in Threads, NEW e \in Embeddings \cup {NoEmbedding}, NEW c \in Confidences,
             Link(t, e, c)
      PROVE  WithinLimit'
  <2>1. UNCHANGED records /\ gpc[t] # "evict" /\ Jump(t, "append")
    BY <1>9 DEF Link, MayLog
  <2> QED BY <1>1, <2>1 DEF Places
<1>10. CASE Age \/ UNCHANGED graphVars
  BY <1>1, <1>10 DEF Age, graphVars
<1> QED BY <1>2, <1>3, <1>4, <1>5, <1>6, <1>7, <1>8, <1>9, <1>10 DEF GraphNext, Step

\* However many threads search and insert, and whatever expires, a scope stays
\* within its limit, but for a record for each thread on its way to evict.
THEOREM ScopesStayBounded == GraphSpec => []WithinLimit
<1>1. GraphInit => GraphTypes /\ WithinLimit
  <2> SUFFICES ASSUME GraphInit PROVE WithinLimit
    BY GraphTypesInitial
  <2>1. Len(records) = 0 /\ Limit \in Nat
    BY StoreAssumption DEF GraphInit, Limit
  <2> QED BY <2>1, GraphTypesInitial, EvictingCounted DEF WithinLimit
<1>2. GraphTypes /\ WithinLimit /\ [GraphNext]_graphVars => (GraphTypes /\ WithinLimit)'
  BY GraphTypesKept, LimitKept
<1> QED BY <1>1, <1>2, PTL DEF GraphSpec

\* One thread that searches for packets and inserts, after a search or without:
\* what it holds of the matrix, the records and the edges at each of its steps.
Rows == [i \in DOMAIN records |-> records[i].embedding]

Current == matrix = Rows

Alikes == {p \in (DOMAIN records) \X (DOMAIN records) :
               /\ p[1] # p[2] /\ records[p[1]].embedding = records[p[2]].embedding
               /\ Compared(records[p[1]], records[p[2]])}

\* Every record has an embedding: the thread searched for it, or it is Logged.
AllEmbedded(t) ==
    /\ \A i \in DOMAIN records : records[i].embedding \in Embeddings
    /\ gpc[t] \in {"gather", "install", "clean", "compare", "weigh", "expand", "decided"} =>
           emb[t] \in Embeddings
    /\ gpc[t] = "append" => rec[t].embedding \in Embeddings

\* A record is younger than those its insertion has seen.
IdsFit(t) ==
    /\ covered <= inserted
    /\ \A i \in DOMAIN records :
           records[i].id \in 1..inserted /\ records[i].seen <= inserted
    /\ gpc[t] = "append" =>
           /\ rec[t].id = inserted /\ covered < inserted
           /\ rec[t].seen = IF moved THEN 0 ELSE covered
           /\ \A i \in DOMAIN records : records[i].id < inserted /\ records[i].seen < inserted

\* The rows of the matrix are the records up to covered, at their positions.
Describes ==
    /\ Len(matrix) <= Len(records)
    /\ \A i \in DOMAIN records :
           IF i <= Len(matrix) THEN matrix[i] = records[i].embedding /\ records[i].id <= covered
                               ELSE records[i].id > covered

\* Until a removal the matrix describes the records it was made of, and from the
\* rebuild to the end of the search all of them.
MatrixFits(t) ==
    /\ ~moved => Describes
    /\ gpc[t] # "renumber" /\ ~dirty => Current /\ ~moved
    /\ gpc[t] \in {"install", "weigh", "expand"} => rows[t] = Rows
    /\ gpc[t] \in {"clean", "compare", "weigh", "expand"} => Current /\ ~moved
    /\ gpc[t] = "expand" => valid[t] \subseteq DOMAIN records

\* The edges join the similar records that were compared, of which the next may be
\* one, or as they were numbered before.
EdgesFit(t) ==
    /\ gpc[t] \notin {"append", "renumber"} => edges = Alikes
    /\ gpc[t] = "append" =>
           edges = Alikes \cup UNION {{<<n, Len(records) + 1>>, <<Len(records) + 1, n>>} :
                                         n \in {i \in DOMAIN records :
                                                    /\ records[i].embedding = rec[t].embedding
                                                    /\ records[i].id <= rec[t].seen}}
    /\ gpc[t] = "renumber" =>
           /\ DOMAIN kept[t] = DOMAIN records
           /\ \A a, b \in DOMAIN records :
                  <<kept[t][a], kept[t][b]>> \in edges <=>
                      /\ a # b /\ records[a].embedding = records[b].embedding
                      /\ Compared(records[a], records[b])

AllFits(t) ==
    /\ AllEmbedded(t) /\ IdsFit(t) /\ MatrixFits(t)
    /\ ~misled => EdgesFit(t) /\ ~raised

LEMMA FitsInitially ==
    ASSUME NEW t \in Threads, GraphInit PROVE AllFits(t)
<1>1. DOMAIN records = {} /\ Rows = <<>> /\ Alikes = {} /\ Len(records) = 0 /\ Len(matrix) = 0
  BY DEF GraphInit, Rows, Alikes
<1>2. Describes
  BY <1>1 DEF Describes
<1> QED BY <1>1, <1>2 DEF GraphInit, AllFits, AllEmbedded, IdsFit, MatrixFits, EdgesFit, Current

\* When every record has an embedding the rows of the matrix are the records'.
LEMMA RowsAreAll ==
    ASSUME records \in Seq(RecordType),
           \A i \in DOMAIN records : records[i].embedding \in Embeddings
    PROVE  EmbeddingRows = Rows
<1> DEFINE n == Len(records) all == {i \in DOMAIN records : records[i].embedding # NoEmbedding}
<1>1. DOMAIN records = 1..n /\ n \in Nat
  BY LenProperties
<1>2. all = 1..n
  BY <1>1, StoreAssumption
<1>3. Picked(records, 1..n) = [k \in 1..n |-> records[k]]
  <2>1. DOMAIN Ascending(1..n) = 1..n /\ \A i \in 1..n : Ascending(1..n)[i] = i
    BY <1>1, AscendingInterval
  <2>2. Picked(records, 1..n) = [k \in DOMAIN Ascending(1..n) |-> records[Ascending(1..n)[k]]]
    BY DEF Picked
  <2> HIDE DEF n
  <2> QED BY <2>1, <2>2
<1>4. EmbeddingRows = [i \in DOMAIN Picked(records, 1..n) |-> Picked(records, 1..n)[i].embedding]
  BY <1>2 DEF EmbeddingRows
<1> HIDE DEF n, all
<1> QED BY <1>1, <1>3, <1>4 DEF Rows

\* Steps that leave the store alone keep what the thread needs at its next one.
LEMMA StillFits ==
    ASSUME NEW t \in Threads, AllFits(t),
           UNCHANGED <<records, edges, inserted, rec, kept, misled>>,
           gpc[t] \notin {"append", "renumber"}, gpc'[t] \notin {"append", "renumber"},
           gpc'[t] \in {"gather", "install", "clean", "compare", "weigh", "expand", "decided"} =>
               emb'[t] \in Embeddings,
           covered' <= inserted, MatrixFits(t)', ~misled => ~raised'
    PROVE  AllFits(t)'
<1>1. Alikes' = Alikes
  BY DEF Alikes, Compared
<1>2. AllEmbedded(t)' /\ IdsFit(t)'
  BY DEF AllFits, AllEmbedded, IdsFit
<1>3. ~misled => EdgesFit(t)'
  BY <1>1 DEF AllFits, EdgesFit
<1> QED BY <1>2, <1>3 DEF AllFits

\* A step of the search that neither rebuilds nor raises.
LEMMA SearchFits ==
    ASSUME NEW t \in Threads, AllFits(t),
           UNCHANGED <<records, matrix, dirty, edges, inserted, rec, kept, raised, history>>,
           gpc[t] \notin {"append", "renumber"}, gpc'[t] \notin {"append", "renumber"},
           gpc'[t] \in {"gather", "install", "clean", "compare", "weigh", "expand", "decided"} =>
               emb'[t] \in Embeddings,
           gpc'[t] \in {"install", "weigh", "expand"} => rows'[t] = Rows,
           gpc'[t] \in {"clean", "compare", "weigh", "expand"} => Current /\ ~moved,
           gpc'[t] = "expand" => valid'[t] \subseteq DOMAIN records
    PROVE  AllFits(t)'
<1>1. Rows' = Rows /\ (Current' <=> Current) /\ (Describes' <=> Describes)
  BY DEF Rows, Current, Describes, history
<1>2. MatrixFits(t)'
  BY <1>1 DEF AllFits, MatrixFits, history
<1>3. covered' <= inserted /\ (~misled => ~raised') /\ misled' = misled
  BY DEF AllFits, IdsFit, history
<1> QED BY <1>2, <1>3, StillFits

LEMMA Positions ==
    ASSUME GraphTypes
    PROVE  DOMAIN records = 1..Len(records) /\ Len(records) \in Nat
BY LenProperties DEF GraphTypes

LEMMA RecordNumbers ==
    ASSUME GraphTypes
    PROVE  \A i \in DOMAIN records : records[i].id \in Nat /\ records[i].seen \in Nat
<1>1. \A i \in DOMAIN records : records[i] \in RecordType
  BY Positions, ElementOfSeq DEF GraphTypes
<1> QED BY <1>1 DEF RecordType

LEMMA RowsLength == ASSUME GraphTypes PROVE Len(Rows) = Len(records)
<1>1. \A i \in DOMAIN records : records[i] \in RecordType
  BY Positions, ElementOfSeq DEF GraphTypes
<1>2. Rows \in [1..Len(records) -> Embeddings \cup {NoEmbedding}]
  BY <1>1, Positions DEF Rows, RecordType
<1> QED BY <1>2, Positions, IsSequence

\* A removal renumbers the edges, or will have.
LEMMA KeepFits ==
    ASSUME NEW t \in Threads, GraphTypes, AllFits(t), gpc[t] \in {"evict", "logged"},
           NEW positions \in Seq(Fresh), Distinct(positions), Keep(t, positions),
           UNCHANGED <<matrix, dirty, edges, inserted, expired, emb, rec, rows, valid, raised>>
    PROVE  AllFits(t)'
<1>1. /\ DOMAIN records' = DOMAIN positions
      /\ \A k \in DOMAIN positions :
             positions[k] \in DOMAIN records /\ records'[k] = records[positions[k]]
  BY KeepFacts DEF GraphTypes
<1>2. gpc'[t] = "renumber" /\ kept'[t] = positions
  BY DEF Keep, Jump, GraphTypes
<1>3. moved' /\ misled' = misled
  BY DEF Keep
<1>4. AllEmbedded(t)' /\ IdsFit(t)' /\ MatrixFits(t)'
  <2>1. AllEmbedded(t)'
    BY <1>1, <1>2 DEF AllFits, AllEmbedded
  <2>2. covered' = covered
    BY DEF Keep
  <2>3. IdsFit(t)'
    BY <1>1, <1>2, <2>2 DEF AllFits, IdsFit
  <2>4. MatrixFits(t)'
    BY <1>2, <1>3 DEF MatrixFits
  <2> QED BY <2>1, <2>3, <2>4
<1>5. ASSUME ~misled PROVE EdgesFit(t)'
  <2>1. edges = Alikes /\ edges' = edges
    BY <1>5 DEF AllFits, EdgesFit
  <2>2. \A a, b \in DOMAIN positions :
            <<positions[a], positions[b]>> \in edges <=>
                /\ a # b /\ records[positions[a]].embedding = records[positions[b]].embedding
                /\ Compared(records[positions[a]], records[positions[b]])
    BY <1>1, <2>1 DEF Alikes, Distinct
  <2> QED BY <1>1, <1>2, <2>1, <2>2 DEF EdgesFit, Compared
<1>6. ~misled => ~raised'
  BY DEF AllFits
<1> QED BY <1>3, <1>4, <1>5, <1>6 DEF AllFits

LEMMA FitsKept ==
    ASSUME NEW t, Readers = {t}, Writers = {t}, NoEmbedding \notin Logged, GraphTypes, AllFits(t),
           [GraphNext]_graphVars
    PROVE  AllFits(t)'
<1>t. t \in Threads /\ Threads = {t} /\ t \in Readers /\ t \in Writers
  BY DEF Threads
<1> USE <1>t
<1>0. inserted \in Nat /\ covered \in Nat
  BY DEF GraphTypes
<1>1. ASSUME NEW e \in Embeddings, Search(t, e) PROVE AllFits(t)'
  <2>1. /\ UNCHANGED <<records, matrix, dirty, edges, inserted, rec, rows, valid, kept, raised,
                        history>>
        /\ gpc[t] = "idle" /\ emb'[t] = e
        /\ gpc'[t] = (CASE records = <<>> -> "decided"
                        [] records # <<>> /\ dirty -> "gather"
                        [] OTHER -> "compare")
    BY <1>1 DEF Search, Jump, GraphTypes
  <2>2. ~dirty => Current /\ ~moved
    BY <2>1 DEF AllFits, MatrixFits
  <2>3. gpc'[t] \in {"decided", "gather", "compare"} /\ (gpc'[t] = "compare" => Current /\ ~moved)
    BY <2>1, <2>2
  <2> QED BY <2>1, <2>3, SearchFits
<1>2. CASE Gather(t)
  <2>1. /\ UNCHANGED <<records, matrix, dirty, edges, inserted, emb, rec, valid, kept, raised,
                        history>>
        /\ gpc[t] = "gather" /\ gpc'[t] = "install" /\ rows'[t] = EmbeddingRows
    BY <1>2 DEF Gather, Jump, GraphTypes
  <2>2. EmbeddingRows = Rows
    BY RowsAreAll DEF AllFits, AllEmbedded, GraphTypes
  <2>3. emb'[t] \in Embeddings
    BY <2>1 DEF AllFits, AllEmbedded
  <2> QED BY <2>1, <2>2, <2>3, SearchFits
<1>3. CASE Install(t)
  <2>1. /\ UNCHANGED <<records, dirty, edges, inserted, emb, rec, rows, valid, kept, raised, misled>>
        /\ gpc[t] = "install" /\ gpc'[t] = "clean" /\ matrix' = rows[t]
        /\ covered' = inserted /\ moved' = FALSE
    BY <1>3 DEF Install, Jump, GraphTypes, locals
  <2>2. Rows' = Rows /\ rows[t] = Rows /\ Current'
    BY <2>1 DEF Rows, AllFits, MatrixFits, Current
  <2>3. Describes'
    <3>1. Len(matrix') = Len(records) /\ matrix' = Rows
      BY <2>1, <2>2, RowsLength
    <3>2. \A i \in DOMAIN records : i <= Len(records) /\ records[i].id <= inserted
      BY Positions, <1>0 DEF AllFits, IdsFit
    <3> QED BY <2>1, <3>1, <3>2, Positions DEF Describes, Rows
  <2>4. MatrixFits(t)'
    BY <2>1, <2>2, <2>3 DEF MatrixFits
  <2>5. emb'[t] \in Embeddings /\ (~misled => ~raised') /\ covered' <= inserted
    BY <2>1, <1>0 DEF AllFits, AllEmbedded
  <2> QED BY <2>1, <2>4, <2>5, StillFits
<1>4. CASE Clean(t)
  <2>1. /\ UNCHANGED <<records, matrix, edges, inserted, emb, rec, rows, valid, kept, raised, history>>
        /\ gpc[t] = "clean" /\ gpc'[t] = "compare"
    BY <1>4 DEF Clean, Jump, GraphTypes, locals
  <2>2. Current /\ ~moved /\ (Current' <=> Current) /\ (Describes' <=> Describes)
    BY <2>1 DEF Current, Rows, Describes, AllFits, MatrixFits, history
  <2>3. MatrixFits(t)'
    BY <2>1, <2>2 DEF MatrixFits, AllFits, history
  <2>4. emb'[t] \in Embeddings /\ (~misled => ~raised') /\ covered' <= inserted /\ misled' = misled
    BY <2>1 DEF AllFits, AllEmbedded, IdsFit, history
  <2> QED BY <2>1, <2>3, <2>4, StillFits
<1>5. ASSUME UNCHANGED <<records, matrix, dirty, edges, inserted, emb, rec, kept, raised, history>>,
             Leave(t), gpc[t] \in {"compare", "weigh", "expand"}
      PROVE  AllFits(t)'
  <2>1. gpc'[t] = "decided"
    BY <1>5 DEF Leave, Jump, GraphTypes
  <2>2. emb'[t] \in Embeddings
    BY <1>5 DEF AllFits, AllEmbedded
  <2> QED BY <1>5, <2>1, <2>2, SearchFits
<1>6. CASE Compare(t)
  <2>1. CASE matrix = <<>>
    BY <1>5, <1>6, <2>1 DEF Compare
  <2>2. CASE matrix # <<>>
    <3>1. /\ UNCHANGED <<records, matrix, dirty, edges, inserted, emb, rec, kept, raised, history>>
          /\ gpc[t] = "compare" /\ gpc'[t] = "weigh" /\ rows'[t] = matrix
      BY <1>6, <2>2 DEF Compare, Jump, GraphTypes
    <3>2. Current /\ ~moved /\ matrix = Rows /\ emb'[t] \in Embeddings
      BY <3>1 DEF AllFits, MatrixFits, Current, AllEmbedded
    <3> QED BY <3>1, <3>2, SearchFits
  <2> QED BY <2>1, <2>2
<1>7. CASE Weigh(t)
  <2>1. /\ UNCHANGED <<records, matrix, dirty, edges, inserted, emb, rec, kept, history>>
        /\ gpc[t] = "weigh" /\ rows[t] = Rows /\ Current /\ ~moved /\ emb[t] \in Embeddings
    BY <1>7 DEF Weigh, AllFits, MatrixFits, AllEmbedded
  <2>2. Len(rows[t]) = Len(records)
    BY <2>1, RowsLength
  <2>3. CASE Fresh = {}
    <3>1. Leave(t) /\ UNCHANGED raised
      BY <1>7, <2>2, <2>3 DEF Weigh
    <3> QED BY <1>5, <2>1, <3>1
  <2>4. CASE Fresh # {}
    <3>1. gpc'[t] = "expand" /\ valid'[t] = Fresh /\ UNCHANGED <<rows, raised>>
      BY <1>7, <2>2, <2>4 DEF Weigh, Jump, GraphTypes
    <3>2. Fresh \subseteq DOMAIN records
      BY DEF Fresh
    <3> QED BY <2>1, <3>1, <3>2, SearchFits
  <2> QED BY <2>3, <2>4
<1>8. CASE Expand(t)
  <2>1. /\ UNCHANGED <<records, matrix, dirty, edges, inserted, emb, rec, kept, history>>
        /\ gpc[t] = "expand" /\ rows[t] = Rows /\ Current /\ ~moved
        /\ valid[t] \subseteq DOMAIN records
    BY <1>8 DEF Expand, AllFits, MatrixFits
  <2>2. ASSUME NEW s \in Best(t),
               \/ \E n \in Neighbours(s) : n > Len(rows[t])
               \/ \E n \in s \cup (Neighbours(s) \cap valid[t]) : n > Len(records)
        PROVE  misled
    <3> SUFFICES ASSUME ~misled PROVE FALSE
      OBVIOUS
    <3>1. edges = Alikes
      BY <2>1 DEF AllFits, EdgesFit
    <3>2. Neighbours(s) \subseteq DOMAIN records
      BY <3>1 DEF Neighbours, Alikes
    <3>3. s \subseteq DOMAIN records
      BY <2>1 DEF Best
    <3>4. Len(rows[t]) = Len(records)
      BY <2>1, RowsLength
    <3> QED BY <2>2, <3>2, <3>3, <3>4, Positions
  <2>3. CASE Leave(t) /\ UNCHANGED raised
    BY <1>5, <2>1, <2>3
  <2>4. CASE Raise(t) /\ misled
    <3>1. gpc'[t] = "idle" /\ misled' = misled /\ covered' = covered /\ moved' = moved
      BY <2>1, <2>4 DEF Raise, Jump, GraphTypes, history
    <3>2. (Current' <=> Current) /\ (Describes' <=> Describes)
      BY <2>1, <3>1 DEF Current, Rows, Describes
    <3>3. MatrixFits(t)'
      BY <2>1, <3>1, <3>2 DEF MatrixFits, AllFits
    <3>4. covered' <= inserted
      BY <3>1 DEF AllFits, IdsFit
    <3> QED BY <2>1, <2>4, <3>1, <3>3, <3>4, StillFits
  <2> QED BY <1>8, <2>2, <2>3, <2>4 DEF Expand
<1>9. CASE Drop(t) \/ EndLog(t)
  <2>1. /\ UNCHANGED <<records, matrix, dirty, edges, inserted, emb, rec, rows, valid, kept, raised,
                        history>>
        /\ gpc[t] \in {"decided", "logged"} /\ gpc'[t] \in {"logged", "idle"}
    BY <1>9 DEF Drop, EndLog, Jump, GraphTypes, locals
  <2> QED BY <2>1, SearchFits
<1>10. ASSUME NEW e \in Embeddings \cup {NoEmbedding}, NEW c \in Confidences, Link(t, e, c)
       PROVE  AllFits(t)'
  <2>1. /\ UNCHANGED <<records, matrix, dirty, emb, rows, valid, kept, raised, covered, moved>>
        /\ gpc[t] \in {"decided", "idle"} /\ gpc'[t] = "append"
        /\ inserted' = inserted + 1
        /\ rec'[t].embedding = e /\ rec'[t].id = inserted + 1
        /\ rec'[t].seen = (IF moved THEN 0 ELSE covered)
        /\ misled' = (misled \/ (moved /\ Similar(e) # {}))
        /\ edges' = edges \cup UNION {{<<n, Len(records) + 1>>, <<Len(records) + 1, n>>} :
                                         n \in Similar(e)}
    BY <1>10 DEF Link, MayLog, Jump, GraphTypes
  <2>2. e \in Embeddings /\ e # NoEmbedding
    BY <1>10, StoreAssumption DEF AllFits, AllEmbedded, Link, MayLog
  <2>3. AllEmbedded(t)'
    BY <2>1, <2>2 DEF AllFits, AllEmbedded
  <2>4. IdsFit(t)'
    <3>1. \A i \in DOMAIN records : records[i].id \in Nat /\ records[i].seen \in Nat
      BY RecordNumbers
    <3> QED BY <1>0, <2>1, <3>1 DEF AllFits, IdsFit
  <2>5. MatrixFits(t)'
    <3>1. Current' = Current /\ Describes' = Describes
      BY <2>1 DEF Current, Rows, Describes
    <3> QED BY <2>1, <3>1 DEF AllFits, MatrixFits
  <2>6. ASSUME ~misled' PROVE EdgesFit(t)' /\ ~raised'
    <3> DEFINE like == {i \in DOMAIN records : /\ records[i].embedding = rec'[t].embedding
                                              /\ records[i].id <= rec'[t].seen}
    <3>1. Alikes' = Alikes /\ edges = Alikes /\ ~raised
      <4>1. Alikes' = Alikes
        BY <2>1 DEF Alikes
      <4>2. ~misled
        BY <2>1, <2>6
      <4> QED BY <2>1, <4>1, <4>2 DEF AllFits, EdgesFit
    <3>2. Similar(e) = like
      <4>1. CASE moved
        <5>1. Similar(e) = {}
          BY <2>1, <2>6, <4>1
        <5>2. \A i \in DOMAIN records : ~(records[i].id <= rec'[t].seen)
          BY <1>0, <2>1, <4>1 DEF AllFits, IdsFit
        <5> QED BY <5>1, <5>2
      <4>2. CASE ~moved
        <5>1. Describes /\ rec'[t].seen = covered
          BY <2>1, <4>2 DEF AllFits, MatrixFits
        <5>2. DOMAIN matrix = 1..Len(matrix) /\ Len(matrix) \in Nat
          BY LenProperties DEF GraphTypes
        <5>3. \A i \in DOMAIN records : records[i].id \in Nat
          BY RecordNumbers
        <5>4. \A i : i \in DOMAIN matrix <=> i \in DOMAIN records /\ i <= Len(matrix)
          BY <5>1, <5>2, Positions DEF Describes
        <5> QED BY <1>0, <2>1, <2>2, <5>1, <5>2, <5>3, <5>4 DEF Similar, Describes
      <4> QED BY <4>1, <4>2
    <3>3. EdgesFit(t)'
      BY <2>1, <3>1, <3>2 DEF EdgesFit
    <3> QED BY <2>1, <3>1, <3>3
  <2> QED BY <2>3, <2>4, <2>5, <2>6 DEF AllFits
<1>11. CASE AppendRecord(t)
  <2> DEFINE m == Len(records) + 1
  <2>1. /\ UNCHANGED <<matrix, edges, inserted, emb, rows, valid, kept, raised, history>>
        /\ gpc[t] = "append" /\ gpc'[t] \in {"evict", "logged"}
        /\ records' = Append(records, rec[t]) /\ dirty' = TRUE
    BY <1>11 DEF AppendRecord, Jump, GraphTypes
  <2>h. covered' = covered /\ moved' = moved /\ misled' = misled
    BY <2>1 DEF history
  <2>2. /\ DOMAIN records = 1..Len(records) /\ Len(records) \in Nat
        /\ m \in Nat /\ m \notin DOMAIN records /\ DOMAIN records' = DOMAIN records \cup {m}
        /\ \A i \in DOMAIN records : records'[i] = records[i]
        /\ records'[m] = rec[t] /\ Len(records') = m
    <3>1. records \in Seq(RecordType) /\ rec[t] \in RecordType
      BY DEF GraphTypes
    <3>2. DOMAIN records' = 1..m /\ 1..m = 1..Len(records) \cup {m}
      BY <2>1, <3>1, Positions, AppendProperties, LenProperties
    <3> QED BY <2>1, <3>1, <3>2, Positions, AppendProperties
  <2>i. \A i \in DOMAIN records : records[i].id \in Nat /\ records[i].seen \in Nat
    BY RecordNumbers
  <2>j. /\ rec[t].id = inserted /\ covered < inserted
        /\ rec[t].seen = (IF moved THEN 0 ELSE covered)
        /\ \A i \in DOMAIN records : records[i].id \in 1..inserted /\ records[i].id < inserted
                                     /\ records[i].seen < inserted
    BY <2>1 DEF AllFits, IdsFit
  <2>k. m = Len(records) + 1
    OBVIOUS
  <2> HIDE DEF m
  <2>3. AllEmbedded(t)' /\ IdsFit(t)'
    <3>1. AllEmbedded(t)'
      BY <2>1, <2>2 DEF AllFits, AllEmbedded
    <3>2. IdsFit(t)'
      BY <1>0, <2>1, <2>2, <2>h, <2>i, <2>j DEF AllFits, IdsFit
    <3> QED BY <3>1, <3>2
  <2>4. MatrixFits(t)'
    <3>1. ASSUME ~moved PROVE Describes'
      <4>1. Describes /\ Len(matrix) \in Nat
        BY <3>1, LenProperties DEF AllFits, MatrixFits, GraphTypes
      <4> QED BY <1>0, <2>1, <2>2, <2>h, <2>j, <2>k, <4>1 DEF Describes
    <3> QED BY <2>1, <2>h, <3>1 DEF MatrixFits
  <2>5. ASSUME ~misled PROVE edges = Alikes'
    <3> DEFINE like == {i \in DOMAIN records : /\ records[i].embedding = rec[t].embedding
                                              /\ records[i].id <= rec[t].seen}
               new == UNION {{<<n, m>>, <<m, n>>} : n \in like}
    <3>1. edges = Alikes \cup new
      BY <2>1, <2>5 DEF AllFits, EdgesFit, m
    <3>2. \A p : p \in new <=> \E n \in like : p = <<n, m>> \/ p = <<m, n>>
      OBVIOUS
    <3>3. \A p : p \in Alikes' <=>
              /\ \E a, b \in DOMAIN records \cup {m} : p = <<a, b>>
              /\ p[1] # p[2] /\ records'[p[1]].embedding = records'[p[2]].embedding
              /\ Compared(records'[p[1]], records'[p[2]])
      BY <2>2 DEF Alikes, Compared
    <3>4. \A p : p \in Alikes <=>
              /\ \E a, b \in DOMAIN records : p = <<a, b>>
              /\ p[1] # p[2] /\ records[p[1]].embedding = records[p[2]].embedding
              /\ Compared(records[p[1]], records[p[2]])
      BY DEF Alikes
    <3>5. \A i \in DOMAIN records :
              /\ Compared(records'[i], rec[t]) <=> records[i].id <= rec[t].seen
              /\ Compared(rec[t], records'[i]) <=> records[i].id <= rec[t].seen
      BY <1>0, <2>2, <2>i, <2>j DEF Compared
    <3>6. \A i \in DOMAIN records : i \in like <=>
              /\ records'[i].embedding = rec[t].embedding /\ records[i].id <= rec[t].seen
      BY <2>2
    <3> HIDE DEF new, like
    <3>7. \A a, b \in DOMAIN records : <<a, b>> \in edges <=> <<a, b>> \in Alikes'
      BY <2>2, <3>1, <3>2, <3>3, <3>4
    <3>8. \A a \in DOMAIN records :
              (<<a, m>> \in edges <=> <<a, m>> \in Alikes') /\ (<<m, a>> \in edges <=> <<m, a>> \in Alikes')
      BY <2>2, <3>1, <3>2, <3>3, <3>4, <3>5, <3>6
    <3>9. <<m, m>> \notin edges /\ <<m, m>> \notin Alikes'
      <4>1. m \notin like
        BY <2>2 DEF like
      <4> QED BY <2>2, <3>1, <3>2, <3>3, <3>4, <4>1
    <3>10. /\ \A p \in edges : \E a, b \in DOMAIN records \cup {m} : p = <<a, b>>
           /\ \A p \in Alikes' : \E a, b \in DOMAIN records \cup {m} : p = <<a, b>>
      <4>1. like \subseteq DOMAIN records
        BY DEF like
      <4> QED BY <3>1, <3>2, <3>3, <3>4, <4>1
    <3> DEFINE all == DOMAIN records \cup {m}
    <3>11. \A a, b \in all : <<a, b>> \in edges <=> <<a, b>> \in Alikes'
      BY <3>7, <3>8, <3>9
    <3>12. \A p \in edges \cup Alikes' : \E a, b \in all : p = <<a, b>>
      BY <3>10
    <3> HIDE DEF all
    <3> QED BY <3>11, <3>12
  <2>6. ASSUME ~misled PROVE EdgesFit(t)' /\ ~raised'
    <3>1. EdgesFit(t)'
      BY <2>1, <2>5, <2>6 DEF EdgesFit
    <3> QED BY <2>1, <2>6, <3>1 DEF AllFits
  <2> QED BY <2>3, <2>4, <2>6, <2>h DEF AllFits
<1>12. CASE Evict(t)
  <2>1. Survivors \in Seq(Fresh) /\ Distinct(Survivors)
    BY SurvivorsFacts DEF GraphTypes
  <2> QED BY <1>12, <2>1, KeepFits DEF Evict
<1>13. CASE Sweep(t)
  <2>1. Ascending(Fresh) \in Seq(Fresh) /\ Distinct(Ascending(Fresh))
    BY SweepFacts DEF GraphTypes
  <2> QED BY <1>13, <2>1, KeepFits DEF Sweep
<1>14. CASE Renumber(t)
  <2>1. /\ UNCHANGED <<records, matrix, inserted, emb, rec, rows, valid, raised, covered, moved, misled>>
        /\ gpc[t] = "renumber" /\ gpc'[t] = "logged"
        /\ edges' = Renumbered(kept[t]) /\ dirty' = TRUE
    BY <1>14 DEF Renumber, Jump, GraphTypes, history
  <2>2. AllEmbedded(t)' /\ IdsFit(t)'
    BY <2>1 DEF AllFits, AllEmbedded, IdsFit
  <2>3. ASSUME ~misled PROVE EdgesFit(t)'
    <3>1. /\ DOMAIN kept[t] = DOMAIN records
          /\ \A a, b \in DOMAIN records :
                  <<kept[t][a], kept[t][b]>> \in edges <=>
                      /\ a # b /\ records[a].embedding = records[b].embedding
                      /\ Compared(records[a], records[b])
      BY <2>1, <2>3 DEF AllFits, EdgesFit
    <3>2. Renumbered(kept[t]) = Alikes
      BY <3>1 DEF Renumbered, Alikes
    <3>3. Alikes' = Alikes
      BY <2>1 DEF Alikes
    <3> QED BY <2>1, <3>2, <3>3 DEF EdgesFit
  <2>4. MatrixFits(t)'
    <3>1. Describes' = Describes
      BY <2>1 DEF Describes
    <3> QED BY <2>1, <3>1 DEF MatrixFits, AllFits
  <2> QED BY <2>1, <2>2, <2>3, <2>4 DEF AllFits
<1>15. CASE Age \/ UNCHANGED graphVars
  <2>1. UNCHANGED <<records, matrix, dirty, edges, inserted, gpc, emb, rec, rows, valid, kept, raised,
                    covered, moved, misled>>
    BY <1>15 DEF Age, graphVars, locals, history
  <2>2. Rows' = Rows /\ Alikes' = Alikes /\ Current' = Current /\ Describes' = Describes
    BY <2>1 DEF Rows, Alikes, Current, Describes
  <2> QED BY <2>1, <2>2 DEF AllFits, AllEmbedded, IdsFit, MatrixFits, EdgesFit
<1> QED BY <1>1, <1>2, <1>3, <1>4, <1>6, <1>7, <1>8, <1>9, <1>10, <1>11, <1>12, <1>13, <1>14, <1>15
        DEF GraphNext, Step

\* One thread: through insertions with and without a search, evictions, sweeps and
\* expiry the edges join exactly the similar records that were compared ...
THEOREM EdgesTellWhatWasCompared ==
    ASSUME NEW t, Readers = {t}, Writers = {t}, NoEmbedding \notin Logged
    PROVE  GraphSpec => []ComparedAreJoined
<1>t. t \in Threads
  BY DEF Threads
<1>1. GraphInit => GraphTypes /\ AllFits(t)
  BY <1>t, GraphTypesInitial, FitsInitially
<1>2. GraphTypes /\ AllFits(t) /\ [GraphNext]_graphVars => (GraphTypes /\ AllFits(t))'
  BY GraphTypesKept, FitsKept
<1>3. AllFits(t) => ComparedAreJoined
  BY <1>t DEF AllFits, EdgesFit, ComparedAreJoined, Quiet, Alikes
<1> QED BY <1>1, <1>2, <1>3, PTL DEF GraphSpec

\* ... and no search raises, unless a record was joined to rows out of place.
THEOREM SearchesSucceed ==
    ASSUME NEW t, Readers = {t}, Writers = {t}, NoEmbedding \notin Logged
    PROVE  GraphSpec => []SearchSucceeds
<1>t. t \in Threads
  BY DEF Threads
<1>1. GraphInit => GraphTypes /\ AllFits(t)
  BY <1>t, GraphTypesInitial, FitsInitially
<1>2. GraphTypes /\ AllFits(t) /\ [GraphNext]_graphVars => (GraphTypes /\ AllFits(t))'
  BY GraphTypesKept, FitsKept
<1>3. AllFits(t) => SearchSucceeds
  BY DEF AllFits, SearchSucceeds
<1> QED BY <1>1, <1>2, <1>3, PTL DEF GraphSpec
==============================================================================

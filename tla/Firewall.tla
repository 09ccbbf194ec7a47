------------------------------- MODULE Firewall -------------------------------
(***************************************************************************)
(* ai-architecture/network/firewall_enforcer.py.  Three records of what is *)
(* blocked have to agree: the rules in the operating system, the set       *)
(* blocked_ips in memory, and the log file the set is reloaded from.  No   *)
(* lock covers them, so the steps of concurrent calls interleave.          *)
(***************************************************************************)
EXTENDS Naturals, Sequences, FiniteSets

CONSTANTS Ips,          \* addresses (valid ones: others are turned away at once)
          Platform,     \* sys.platform
          Blockers,     \* threads calling block_ip: the pipeline's DB workers
          Operators,    \* threads calling unblock_ip and clear_all_blocks
          MaxCommands,  \* bound: firewall commands run
          MaxRestarts   \* bound: restarts of the process

ASSUME FirewallAssumption ==
    /\ Platform \in {"linux", "win32", "darwin"}
    /\ Blockers \cap Operators = {}
    /\ MaxCommands \in Nat /\ MaxRestarts \in Nat

VARIABLES rules,        \* per address, how many block rules the system has
          blocked_ips,  \* the set in memory
          log,          \* the lines of log_file
          pc, arg,      \* where each caller is, and for which address
          todo,         \* the addresses an operator has still to unblock
          granted,      \* addresses the last block_ip of which returned True
          doubt,        \* addresses of which a command or its record was cut off
          commands, restarts

vars == <<rules, blocked_ips, log, pc, arg, todo, granted, doubt, commands, restarts>>

Callers == Blockers \cup Operators

NoIp == "none"

Entry(action, ip, success) == [action |-> action, ip |-> ip, success |-> success]

Init == /\ rules = [ip \in Ips |-> 0]
        /\ blocked_ips = {}
        /\ log = <<>>
        /\ pc = [c \in Callers |-> "idle"]
        /\ arg = [c \in Callers |-> NoIp]
        /\ todo = [c \in Operators |-> {}]
        /\ granted = {}
        /\ doubt = {}
        /\ commands = 0
        /\ restarts = 0

------------------------------------------------------------------------------
(* What the firewall commands do.                                           *)

\* iptables -A and netsh add append one more rule; pfctl -f - replaces the
\* whole ruleset by the one rule it is given.
RulesAfterAdd(ip) ==
    IF Platform = "darwin" THEN [i \in Ips |-> IF i = ip THEN 1 ELSE 0]
                           ELSE [rules EXCEPT ![ip] = @ + 1]

\* iptables -D deletes one matching rule, netsh delete every rule of the name;
\* pfctl goes back to /etc/pf.conf.
RulesAfterDelete(ip) ==
    CASE Platform = "linux"  -> [rules EXCEPT ![ip] = @ - 1]
      [] Platform = "win32"  -> [rules EXCEPT ![ip] = 0]
      [] Platform = "darwin" -> [i \in Ips |-> 0]

\* iptables and netsh report an error when there is nothing to delete.
DeleteFinds(ip) == Platform = "darwin" \/ rules[ip] > 0

------------------------------------------------------------------------------
(* block_ip                                                                 *)

Goto(c, label) == pc' = [pc EXCEPT ![c] = label]
Return(c) == Goto(c, "idle") /\ arg' = [arg EXCEPT ![c] = NoIp]

\* "IP already blocked": True without a look at the firewall.
AlreadyBlocked(c, ip) ==
    /\ c \in Blockers /\ pc[c] = "idle"
    /\ ip \in blocked_ips
    /\ granted' = granted \cup {ip}
    /\ UNCHANGED <<rules, blocked_ips, log, pc, arg, todo, doubt, commands, restarts>>

Block(c, ip) ==
    /\ c \in Blockers /\ pc[c] = "idle"
    /\ ip \notin blocked_ips
    /\ commands < MaxCommands
    /\ commands' = commands + 1
    /\ Goto(c, "add")
    /\ arg' = [arg EXCEPT ![c] = ip]
    /\ UNCHANGED <<rules, blocked_ips, log, todo, granted, doubt, restarts>>

\* The command succeeds, ...
Add(c) ==
    /\ pc[c] = "add"
    /\ rules' = RulesAfterAdd(arg[c])
    /\ Goto(c, "track")
    /\ UNCHANGED <<blocked_ips, log, arg, todo, granted, doubt, commands, restarts>>

\* Slip: the exit status is not looked at.
AddFailsTracks(c) ==
    /\ pc[c] = "add"
    /\ Goto(c, "track")
    /\ UNCHANGED <<rules, blocked_ips, log, arg, todo, granted, doubt, commands, restarts>>

\* ... exits with an error, which is logged, ...
AddFails(c) ==
    /\ pc[c] = "add"
    /\ Goto(c, "log_failed_block")
    /\ UNCHANGED <<rules, blocked_ips, log, arg, todo, granted, doubt, commands, restarts>>

\* ... is not installed, which only macOS's handler logs, ...
ProgramMissing(c) ==
    /\ pc[c] = "add"
    /\ Platform # "darwin"
    /\ Return(c)
    /\ granted' = granted \ {arg[c]}
    /\ UNCHANGED <<rules, blocked_ips, log, todo, doubt, commands, restarts>>

\* ... or times out after 5 s, with or without having had its effect.
AddTimesOut(c) ==
    /\ pc[c] = "add"
    /\ rules' \in {rules, RulesAfterAdd(arg[c])}
    /\ doubt' = doubt \cup {arg[c]}
    /\ Goto(c, "log_failed_block")
    /\ UNCHANGED <<blocked_ips, log, arg, todo, granted, commands, restarts>>

Track(c) ==
    /\ pc[c] = "track"
    /\ blocked_ips' = blocked_ips \cup {arg[c]}
    /\ Goto(c, "log_block")
    /\ UNCHANGED <<rules, log, arg, todo, granted, doubt, commands, restarts>>

\* _log_action appends a line; a write error is printed and forgotten.
LogAction(entry, ip) ==
    \/ log' = Append(log, entry) /\ UNCHANGED doubt
    \/ doubt' = doubt \cup {ip} /\ UNCHANGED log

LogBlock(c) ==
    /\ pc[c] = "log_block"
    /\ LogAction(Entry("block", arg[c], TRUE), arg[c])
    /\ granted' = granted \cup {arg[c]}
    /\ Return(c)
    /\ UNCHANGED <<rules, blocked_ips, todo, commands, restarts>>

LogFailedBlock(c) ==
    /\ pc[c] = "log_failed_block"
    /\ LogAction(Entry("block", arg[c], FALSE), arg[c])
    /\ granted' = granted \ {arg[c]}
    /\ Return(c)
    /\ UNCHANGED <<rules, blocked_ips, todo, commands, restarts>>

------------------------------------------------------------------------------
(* unblock_ip, called alone or by clear_all_blocks for a snapshot of the set *)

Request(c) ==
    /\ c \in Operators /\ pc[c] = "idle" /\ todo[c] = {}
    /\ \E ips \in {{ip} : ip \in Ips} \cup {blocked_ips} : todo' = [todo EXCEPT ![c] = ips]
    /\ UNCHANGED <<rules, blocked_ips, log, pc, arg, granted, doubt, commands, restarts>>

\* "IP not blocked": True without a look at the firewall.
NotBlocked(c, ip) ==
    /\ c \in Operators /\ pc[c] = "idle" /\ ip \in todo[c]
    /\ ip \notin blocked_ips
    /\ todo' = [todo EXCEPT ![c] = @ \ {ip}]
    /\ UNCHANGED <<rules, blocked_ips, log, pc, arg, granted, doubt, commands, restarts>>

Unblock(c, ip) ==
    /\ c \in Operators /\ pc[c] = "idle" /\ ip \in todo[c]
    /\ ip \in blocked_ips
    /\ commands < MaxCommands
    /\ commands' = commands + 1
    /\ todo' = [todo EXCEPT ![c] = @ \ {ip}]
    /\ arg' = [arg EXCEPT ![c] = ip]
    /\ granted' = granted \ {ip}
    /\ Goto(c, "delete")
    /\ UNCHANGED <<rules, blocked_ips, log, doubt, restarts>>

Delete(c) ==
    /\ pc[c] = "delete"
    /\ DeleteFinds(arg[c])
    /\ rules' = RulesAfterDelete(arg[c])
    /\ Goto(c, "untrack")
    /\ UNCHANGED <<blocked_ips, log, arg, todo, granted, doubt, commands, restarts>>

\* Slip: the address leaves the set although the rule is still there.
DeleteFailsUntracks(c) ==
    /\ pc[c] = "delete"
    /\ Goto(c, "untrack")
    /\ UNCHANGED <<rules, blocked_ips, log, arg, todo, granted, doubt, commands, restarts>>

\* An error or a missing program: the address stays in the set.
DeleteFails(c) ==
    /\ pc[c] = "delete"
    /\ Goto(c, "log_failed_unblock")
    /\ UNCHANGED <<rules, blocked_ips, log, arg, todo, granted, doubt, commands, restarts>>

DeleteTimesOut(c) ==
    /\ pc[c] = "delete"
    /\ rules' \in {rules} \cup {r \in {RulesAfterDelete(arg[c])} : DeleteFinds(arg[c])}
    /\ doubt' = doubt \cup {arg[c]}
    /\ Goto(c, "log_failed_unblock")
    /\ UNCHANGED <<blocked_ips, log, arg, todo, granted, commands, restarts>>

Untrack(c) ==
    /\ pc[c] = "untrack"
    /\ blocked_ips' = blocked_ips \ {arg[c]}
    /\ Goto(c, "log_unblock")
    /\ UNCHANGED <<rules, log, arg, todo, granted, doubt, commands, restarts>>

LogUnblock(c) ==
    /\ pc[c] \in {"log_unblock", "log_failed_unblock"}
    /\ LogAction(Entry("unblock", arg[c], pc[c] = "log_unblock"), arg[c])
    /\ Return(c)
    /\ UNCHANGED <<rules, blocked_ips, todo, granted, commands, restarts>>

------------------------------------------------------------------------------
\* Slip: any unblock line takes the address off, a failed unblock's too.
LoadedUnlessUnblocked(lines) ==
    {lines[i].ip : i \in {i \in 1..Len(lines) :
        \A j \in i..Len(lines) : lines[j].action = "block" \/ lines[j].ip # lines[i].ip}}

\* _load_blocked_ips: every address some "block" line names.
LoadedFrom(lines) == {lines[i].ip : i \in {i \in 1..Len(lines) : lines[i].action = "block"}}

\* The process ends at any point and starts again; the rules outlive it.
Restart ==
    /\ restarts < MaxRestarts
    /\ restarts' = restarts + 1
    /\ blocked_ips' = LoadedFrom(log)
    /\ pc' = [c \in Callers |-> "idle"]
    /\ arg' = [c \in Callers |-> NoIp]
    /\ todo' = [c \in Operators |-> {}]
    /\ granted' = {}
    /\ doubt' = doubt \cup {arg[c] : c \in {c \in Callers : pc[c] # "idle"}}
    /\ UNCHANGED <<rules, log, commands>>

BlockStep(c) == \/ \E ip \in Ips : AlreadyBlocked(c, ip) \/ Block(c, ip)
                \/ Add(c) \/ AddFails(c) \/ ProgramMissing(c) \/ AddTimesOut(c)
                \/ Track(c) \/ LogBlock(c) \/ LogFailedBlock(c)

UnblockStep(c) == \/ Request(c)
                  \/ \E ip \in Ips : NotBlocked(c, ip) \/ Unblock(c, ip)
                  \/ Delete(c) \/ DeleteFails(c) \/ DeleteTimesOut(c)
                  \/ Untrack(c) \/ LogUnblock(c)

Next == \/ \E c \in Blockers : BlockStep(c)
        \/ \E c \in Operators : UnblockStep(c)
        \/ Restart

Spec == Init /\ [][Next]_vars

------------------------------------------------------------------------------
(* Properties.                                                              *)

\* No call is working on the address.
Settled(ip) == ip \notin doubt /\ \A c \in Callers : arg[c] # ip

\* "Get set of currently blocked IPs" (firewall_enforcer.py:286): an address in
\* the set has a rule, once no call is working on it and no command on it was
\* cut off.
CurrentlyBlocked == \A ip \in blocked_ips : Settled(ip) => rules[ip] > 0

\* ... at least until the process is restarted and reloads the set.
CurrentlyBlockedAtFirst == restarts = 0 => CurrentlyBlocked

\* The other way round: whatever the system still blocks is in the set, so that
\* unblock_ip and clear_all_blocks can reach it.
RulesAreTracked == \A ip \in Ips : rules[ip] > 0 /\ Settled(ip) => ip \in blocked_ips

\* block_ip answered True, nobody has asked to unblock since: there is a rule.
TrueMeansBlocked == \A ip \in granted \ doubt : rules[ip] > 0

\* A restart forgets no block: every address with a rule is loaded again.
NothingForgotten ==
    \A ip \in Ips : rules[ip] > 0 /\ Settled(ip) => ip \in LoadedFrom(log)
==============================================================================

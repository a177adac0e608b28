------------------------------- MODULE MCSync -------------------------------
(***************************************************************************)
(* How patches reach a host, for TLC, in four parts that share no state: a *)
(* behaviour is of one of them, and the rest stays as it began, where      *)
(* nothing fair is enabled.                                                *)
(*                                                                         *)
(*   exchange   a syncWith with its attempts, the network and the server;  *)
(*              the chains do not grow                                     *)
(*   pages      a requester that follows pages while the chains grow       *)
(*   installs   commits, materializations and sync responses, one call at  *)
(*              a time, with a subscriber                                  *)
(*   watch      a poll against commits and materializations that overlap   *)
(***************************************************************************)
EXTENDS SyncExchange, HostInstalls

VARIABLE focus

SyncInit ==
    /\ focus \in {"exchange", "pages", "installs", "watch"}
    /\ ExchangeInit /\ InstallsInit
    /\ focus # "pages" => local = [w \in SyncWriters |-> 0]
    /\ focus # "exchange" => ~secured
    /\ focus \in {"exchange", "pages"} => refs = NoTips

SyncNext ==
    /\ UNCHANGED focus
    /\ \/ focus = "exchange" /\ ExchangeNext /\ UNCHANGED <<served, pager, installVars>>
       \/ focus = "pages" /\ ExchangeNext /\ UNCHANGED <<sync, clock, life, installVars>>
       \/ focus = "installs" /\ InstallsNext /\ orderly' /\ UNCHANGED <<poll, exchangeVars>>
       \/ /\ focus = "watch" /\ InstallsNext /\ Len(states') < MaxInstalled - 1
          /\ UNCHANGED <<subs, peer, apply, exchangeVars>>

SyncSpec ==
    /\ SyncInit /\ [][SyncNext]_<<exchangeVars, installVars, focus>>
    /\ ExchangeFairness /\ InstallsFairness
=============================================================================

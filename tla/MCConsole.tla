------------------------------ MODULE MCConsole ------------------------------
(***************************************************************************)
(* The list pages and the rule pages of the console.  They share nothing   *)
(* but the query client: a behaviour is about one of them, and the         *)
(* variables of the other one stay as they are.                            *)
(*                                                                         *)
(* Bounds: for the lists, two rows and a third one to create, pages of one *)
(* or two rows, three clicks, two requests under way together; once the    *)
(* second is sent nothing more could be, so that no control is used.  For  *)
(* the rules, three of them and one to create, three clicks and two        *)
(* requests.  One upset each.                                              *)
(***************************************************************************)
EXTENDS ListPages

CONSTANTS Rules, Opened, RuleClicks

ASSUME ListsAssumption

VARIABLES part,
          ruleStored, ruleShown, form, optimistic, gaveUp, excused

both == <<version, cache, fetch, reqs, clicks, sends, upsets>>
ofLists == <<list, stored, past, edited, left, emptied, view, dialogs, shown>>
ofRules == <<ruleStored, ruleShown, form, optimistic, gaveUp, excused>>
consoleVars == <<part, both, ofLists, ofRules>>

R == INSTANCE RulePages WITH Ids <- Rules, MaxClicks <- RuleClicks,
                             stored <- ruleStored, shown <- ruleShown

ASSUME R!RulesAssumption

NoRows == [i \in {} |-> None]
NoLists == /\ list = None /\ stored = NoRows /\ past = NoRows /\ edited = {} /\ left = {} /\ emptied = {}
           /\ view = None /\ dialog = None /\ bulkForm = None /\ shown = 0
NoRules == /\ ruleStored = None /\ ruleShown = 0 /\ form = None
           /\ optimistic = None /\ gaveUp = None /\ excused = None

ConsoleInit == \/ part = "lists" /\ Init /\ NoRules
               \/ part = "rules" /\ R!Init /\ NoLists

ConsoleNext == \/ part = "lists" /\ Next /\ UNCHANGED <<part, ofRules>>
               \/ part = "rules" /\ R!Next /\ UNCHANGED <<part, ofLists>>

ConsoleSpec == ConsoleInit /\ [][ConsoleNext]_consoleVars

-----------------------------------------------------------------------------

\* What a drag shows ahead of the server does not stay, of RulePages.
OptimismSettles == part = "rules" => R!OptimismSettles

\* Rules of equal priority have an explanation, of RulePages.
TiesAreExplained == part = "rules" => R!TiesAreExplained
=============================================================================

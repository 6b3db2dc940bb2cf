---------------------------- MODULE MCQueueScreen ----------------------------
(* Three claims of which one is urgent, a page that shows two: a claim falls   *)
(* off the page while it is selected and comes back.                           *)
EXTENDS QueueScreen

CONSTANTS c1, c2, c3

MCWaiting == <<c1, c2>>
==============================================================================

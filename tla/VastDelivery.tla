----------------------------- MODULE VastDelivery -----------------------------
(* fetch_vast with its parser: the documents of module VastDocument, and    *)
(* what module VastParser makes of them.                                    *)
EXTENDS VastFetch, VastDocument

CONSTANT Documents  \* sequence of the documents ad servers may have

ASSUME DocumentsAssumption ==
  Parsed = [d \in DOMAIN Documents |-> parse_vast(Xml(Documents[d]))]

IsWhole(doc) == doc.cut = Len(VastXml(doc.ads))

(* A document is read as what it says, whatever it has besides the elements *)
(* the code knows: several error urls, empty impressions, companions with   *)
(* tracking of their own, verifications in an extension.  Cut short at any  *)
(* point, it still gives each of its ads but the last unharmed.             *)
ParserExact ==
  At("ads") =>
    LET doc  == Documents[document[Top.tag]]
        read == AdsOf(Top.tag)
    IN  /\ Len(read) <= Len(doc.ads)
        /\ IsWhole(doc) => Len(read) = Len(doc.ads)
        /\ \A i \in DOMAIN read :
             i < Len(read) \/ IsWhole(doc) => MeaningRead(read[i]) = Meaning(doc.ads[i])
=============================================================================

--------------------------- MODULE ConfidenceEngine ---------------------------
(***************************************************************************)
(* evaluateBidConfidence and applyTranscriptionQuality: what the bot does  *)
(* with an interpreted text.  Confidences are in hundredths.               *)
(***************************************************************************)
EXTENDS Integers, FiniteSets

Decisions == {"register", "confirm", "clarify", "orient_number", "orient_format", "ignore"}

PARTIAL_COVERAGE_REGISTER_MIN == 500   \* thousandths of the item's name
ACTIVE_CONTEXT_REGISTER_MIN   == 90
TRANSCRIPTION_QUALITY_CONFIRM_MAX == 70

\* A signal: items in dispute that take the amount, those that do not, the age of the
\* newest bid among the first.
activeContextConfidence(signal) ==
    LET recent == CASE signal.age = "hot" -> 4 [] signal.age = "warm" -> 2 [] OTHER -> 0
        unique == IF Cardinality(signal.candidates) + signal.blocked = 1 THEN 2 ELSE 0
    IN IF 88 + recent + unique > 95 THEN 95 ELSE 88 + recent + unique

ByContext(signal) ==
    IF Cardinality(signal.candidates) > 1 THEN "clarify"
    ELSE IF signal.blocked > 0 THEN "confirm"
    ELSE IF activeContextConfidence(signal) >= ACTIVE_CONTEXT_REGISTER_MIN
    THEN "register" ELSE "confirm"

ByMatch(parsed) ==
    IF parsed.ambiguous THEN "clarify"
    ELSE IF \/ parsed.by \in {"item_number", "item_alias", "item_name_exact"}
            \/ /\ parsed.by = "item_name_partial"
               /\ parsed.coverage >= PARTIAL_COVERAGE_REGISTER_MIN
    THEN "register" ELSE "confirm"

\* replied: the item is the quoted message's.  digits: the text begins with a digit.
evaluateBidConfidence(parsed, replied, looksLikeBid, digits, signal) ==
    CASE parsed.amount = 0         -> IF digits THEN "orient_format" ELSE "ignore"
      [] parsed.amount # 0 /\ replied -> "register"
      [] OTHER ->
           IF parsed.item # 0 THEN ByMatch(parsed)
           ELSE IF parsed.unknown THEN "orient_number"
           ELSE IF parsed.ambiguous /\ parsed.candidates # {} THEN "clarify"
           ELSE IF signal.candidates # {} THEN ByContext(signal)
           ELSE IF looksLikeBid THEN "clarify"
           ELSE IF digits THEN "orient_format" ELSE "ignore"

\* A transcription of low quality registers nothing by itself; one without a quality does.
Muffled(quality) == quality \in 0 .. TRANSCRIPTION_QUALITY_CONFIRM_MAX - 1
applyTranscriptionQuality(decision, quality) ==
    IF decision = "register" /\ Muffled(quality) THEN "confirm" ELSE decision
=============================================================================

----------------------------- MODULE SpeechToText -----------------------------
(***************************************************************************)
(* SpeechToTextService and transcribeAudio: a voice message becomes a text *)
(* and the quality the provider gives it, or an error.                     *)
(*                                                                         *)
(* A recording is what WhatsApp hands over and what the provider will say  *)
(* of it: whether it downloads, its type, its size, its length and the     *)
(* provider's answer.  Qualities are in hundredths, sizes in bytes.        *)
(***************************************************************************)
EXTENDS Integers

CONSTANT Speech  \* configuration: provider's name, whether it has a key, the two limits

NoQuality == -1
Default   == [maxAudioMb |-> 8, maxDurationSeconds |-> 180]
Errors    == {"disabled", "too_large", "too_long", "unsupported_format", "invalid_audio",
              "timeout", "provider_error", "empty"}
Hearings  == {"heard", "silence", "timeout", "unreachable", "refused", "garbled"}

ASSUME SpeechAssumption ==
    /\ Speech.provider \in STRING /\ Speech.apiKey \in BOOLEAN
    /\ Speech.maxAudioMb \in Int /\ Speech.maxDurationSeconds \in Int

\* A limit that is not a positive number gives way to the default.
Limit(name) == IF Speech[name] > 0 THEN Speech[name] ELSE Default[name]

isEnabled == Speech.provider \in {"", "openai", "openai-compatible"} /\ Speech.apiKey

failed(error) == [ok |-> FALSE, error |-> error, quality |-> NoQuality]

\* What the provider reports counts only between 0 and 1.
Reported(confidence) == IF confidence \in 0 .. 100 THEN confidence ELSE NoQuality

\* One request to the provider; the text itself is the message's.
provider(answer) ==
    CASE answer.kind = "heard"   -> [ok |-> TRUE, error |-> "none", quality |-> Reported(answer.confidence)]
      [] answer.kind = "silence" -> failed("empty")
      [] answer.kind = "timeout" -> failed("timeout")
      [] OTHER                   -> failed("provider_error")

\* A length WhatsApp does not tell, or tells as zero, is no length.
audioDurationSeconds(seconds) == IF seconds > 0 THEN seconds ELSE 0

transcribe(audio) ==
    IF audio.bytes = 0 THEN failed("invalid_audio")
    ELSE IF ~audio.isAudio THEN failed("unsupported_format")
    ELSE IF audio.bytes > Limit("maxAudioMb") * 1024 * 1024 THEN failed("too_large")
    ELSE IF audioDurationSeconds(audio.seconds) > Limit("maxDurationSeconds") THEN failed("too_long")
    ELSE provider(audio.answer)

transcribeAudio(audio) ==
    IF ~isEnabled THEN failed("disabled")
    ELSE IF ~audio.downloads THEN failed("invalid_audio")
    ELSE transcribe(audio)
=============================================================================

SPECIFICATION Spec
CONSTANTS
  Words <- TheWords
  CallIds <- TwoIds
  Arguments <- TheArguments
  OpenaiMessages <- FromOpenai
  AnthropicMessages <- FromAnthropic
  Systems <- SystemTexts
  FieldSets <- Fields
  MaxMessages = 5
CHECK_DEADLOCK FALSE
INVARIANTS NothingLost AnsweredAtOnce RoundTrip EveryFieldOnce

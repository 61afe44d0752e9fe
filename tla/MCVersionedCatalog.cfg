CONSTANTS
  Versions <- MCVersions
  Described <- MCDescribed
  Payloads <- MCPayloads
  Accepts <- MCAccepts
  Users = {u1}
  Names = {n}
  MaxChanges = 1
  MaxRestarts = 1
  MaxSends = 2

SPECIFICATION FairSpec

INVARIANT TypeOK
INVARIANT AnswersTrue
INVARIANT OnlyWhatWasAsked
PROPERTY TemplateStaysGood
PROPERTY CurrentInTheEnd

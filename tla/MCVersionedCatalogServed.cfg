CONSTANTS
  Versions <- MCVersions
  Described <- MCDescribed
  Payloads <- MCPayloads
  Accepts <- MCAccepts
  Users = {u1}
  Names = {n}
  MaxChanges = 1
  MaxRestarts = 0
  MaxSends = 2

SPECIFICATION Spec

PROPERTY ServedMeansAccepted

SPECIFICATION FairSpec
CONSTANTS
  Elem = {q1, q2, q3}
  NoElem = NoElem
  Event = {data, opened, paste}
  NoEvent = NoEvent
  InterruptEv = {data, opened}
  UniqueEv = {data}
INVARIANT TypeOK
INVARIANT ElementsConserved
INVARIANT HeadIsStable
INVARIANT AtMostOneDuplicate
PROPERTY ImplementsFifo
PROPERTY EveryEventIsTaken

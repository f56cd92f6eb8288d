SPECIFICATION Spec
INVARIANTS
  TypeOK
  ReadsWereSent
  AnswersComeFromHandler
  PointersWritten
  ReplyFits
  CleanupFreesItsOwn
  OnlyAttributesLeak

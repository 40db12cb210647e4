SPECIFICATION Spec
CONSTANTS
 Names <- OneFile
 AIO_MAX_FILES = 2
 MAX_INPUT_BUF = 3
 MAX_TOKEN_LEN = 6
 MAX_LINE_LEN = 8
 Bits <- SmallBits
 Statements <- SmallStatements
 Typed <- Answers
 Outputs = {"console", "window"}
 MaxWrites = 2
 MaxReads = 4
INVARIANTS ReadBack EOFTellsEnd

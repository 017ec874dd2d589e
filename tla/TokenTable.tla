----------------------------- MODULE TokenTable -----------------------------
(***************************************************************************)
(* TokInfo of the lexer: the tokens that have a spelling, in the order in  *)
(* which MakeToken tries them.                                             *)
(***************************************************************************)
EXTENDS Integers, Sequences

Keywords ==
  << <<"import", "TokImport">>, <<"static", "TokStatic">>, <<"if", "TokIf">>, <<"else", "TokElse">>,
     <<"do", "TokDo">>, <<"while", "TokWhile">>, <<"return", "TokReturn">>, <<"for", "TokFor">>,
     <<"break", "TokBreak">>, <<"typedef", "TokTypeDef">>, <<"const", "TokConst">>,
     <<"switch", "TokSwitch">>, <<"case", "TokCase">>, <<"default", "TokDefault">>,
     <<"continue", "TokContinue">>, <<"goto", "TokGoto">>, <<"sizeof", "TokSizeOf">>,
     <<"signed", "TokSigned">>, <<"unsigned", "TokUnsigned">>, <<"char", "TokChar">>,
     <<"short", "TokShort">>, <<"int", "TokInt">>, <<"long", "TokLong">>, <<"float", "TokFloat">>,
     <<"double", "TokDouble">>, <<"void", "TokVoid">>, <<"class", "TokClass">> >>

Operators ==
  << <<"<<=", "TokComBitShiftL">>, <<">>=", "TokComBitShiftR">>, <<"...", "TokDotDotDot">>,
     <<"<<", "TokBitShiftL">>, <<">>", "TokBitShiftR">>, <<"++", "TokUnaryInc">>,
     <<"--", "TokUnaryDec">>, <<"+=", "TokComAdd">>, <<"-=", "TokComSub">>, <<"*=", "TokComMul">>,
     <<"/=", "TokComDiv">>, <<"%=", "TokComMod">>, <<"&=", "TokComBitAnd">>, <<"|=", "TokComBitOr">>,
     <<"^=", "TokComBitXor">>, <<"==", "TokEqual">>, <<"!=", "TokNotEqual">>,
     <<"<=", "TokLessThanEqual">>, <<">=", "TokGreatorThenEqual">>, <<"&&", "TokConAnd">>,
     <<"||", "TokConOr">>, <<"->", "TokRightArrow">>, <<"+", "TokAdd">>, <<"-", "TokSub">>,
     <<"*", "TokMul">>, <<"/", "TokDiv">>, <<"%", "TokMod">>, <<"=", "TokAssign">>,
     <<"&", "TokBitAnd">>, <<"|", "TokBitOr">>, <<"^", "TokBitXor">>, <<"~", "TokBitNot">>,
     <<"<", "TokLessThan">>, <<">", "TokGreatorThan">>, <<"!", "TokConNot">>, <<"?", "TokQuestion">>,
     <<"(", "TokParenOpen">>, <<")", "TokParenClose">>, <<"{", "TokBraceOpen">>,
     <<"}", "TokBraceClose">>, <<"[", "TokBracketOpen">>, <<"]", "TokBracketClose">>,
     <<",", "TokComma">>, <<".", "TokDot">>, <<":", "TokColon">>, <<";", "TokSemiColon">> >>

TokInfo == Keywords \o Operators

Spelling ==
  [w \in {TokInfo[i][1] : i \in DOMAIN TokInfo} |->
     TokInfo[CHOOSE i \in DOMAIN TokInfo : TokInfo[i][1] = w][2]]
=============================================================================
